---- MODULE Spec2Model ----
(***************************************************************************)
(* Model of the DBOR decoder kernel of dbor-c++: Encoding::sizeOfValueIn,  *)
(* Encoding::decodeNaturalTokenData, dbor::Value (construction and the     *)
(* typed getters) and dbor::ValueSequence::Iterator.                       *)
(*                                                                         *)
(* A pointer into the caller's buffer is the 1-based index of the byte it  *)
(* points to; nullptr is 0.  Unsigned values wider than TLC's integers     *)
(* (std::size_t, std::uint64_t) are little-endian sequences of base-256     *)
(* digits without leading zero digits ("Nat" below), so that no width is   *)
(* lost.                                                                   *)
(***************************************************************************)
EXTENDS Integers, Sequences, FiniteSets, TLC

VARIABLES
    buffer,         \* the bytes of the caller's buffer (never written)
    bufferPtr,      \* the pointer handed to the constructor: 1 or nullptr
    front,          \* Iterator::front_, a Value
    remainingSize,  \* Iterator::remainingSize_
    calls,          \* history: operator++ calls since construction
    sumSizes,       \* history: sum of size() of the non-end fronts so far
    prev,           \* history: front_ and remainingSize_ before the last operator++
    out             \* the last call of a function or getter with its results

vars == <<buffer, bufferPtr, front, remainingSize, calls, sumSizes, prev, out>>

(***************************************************************************)
(* Bounds of the model                                                     *)
(***************************************************************************)
\* longest buffer enumerated byte by byte over SeqBytes
MaxLen == 4
\* operator++ calls still made on an iterator that is already at the end
MaxEndCalls == 2

(***************************************************************************)
(* Arbitrary-width unsigned arithmetic on little-endian base-256 digits    *)
(***************************************************************************)
RECURSIVE Norm(_)
Norm(d) ==
    IF d = <<>> THEN <<>>
    ELSE IF d[Len(d)] = 0 THEN Norm(SubSeq(d, 1, Len(d) - 1)) ELSE d

RECURSIVE AddDigits(_, _, _)
AddDigits(a, b, c) ==
    IF a = <<>> /\ b = <<>> THEN (IF c = 0 THEN <<>> ELSE <<c>>)
    ELSE LET x == IF a = <<>> THEN 0 ELSE Head(a)
             y == IF b = <<>> THEN 0 ELSE Head(b)
             s == x + y + c
         IN  <<s % 256>> \o AddDigits(IF a = <<>> THEN <<>> ELSE Tail(a),
                                       IF b = <<>> THEN <<>> ELSE Tail(b),
                                       s \div 256)

NatAdd(a, b) == Norm(AddDigits(a, b, 0))

RECURSIVE CmpFrom(_, _, _)
CmpFrom(x, y, i) ==
    IF i = 0 THEN 0
    ELSE IF x[i] < y[i] THEN 0 - 1
    ELSE IF x[i] > y[i] THEN 1
    ELSE CmpFrom(x, y, i - 1)

NatCmp(a, b) ==
    LET x == Norm(a)
        y == Norm(b)
    IN  IF Len(x) < Len(y) THEN 0 - 1
        ELSE IF Len(x) > Len(y) THEN 1
        ELSE CmpFrom(x, y, Len(x))

NatLe(a, b) == NatCmp(a, b) <= 0
NatLt(a, b) == NatCmp(a, b) < 0

\* a - b for a >= b
RECURSIVE SubDigits(_, _, _)
SubDigits(a, b, c) ==
    IF a = <<>> THEN <<>>
    ELSE LET y == IF b = <<>> THEN 0 ELSE Head(b)
             s == Head(a) - y - c
         IN  <<(s + 256) % 256>> \o SubDigits(Tail(a),
                                               IF b = <<>> THEN <<>> ELSE Tail(b),
                                               IF s < 0 THEN 1 ELSE 0)

NatSub(a, b) == Norm(SubDigits(a, b, 0))

RECURSIVE NatOfInt(_)
NatOfInt(n) == IF n = 0 THEN <<>> ELSE <<n % 256>> \o NatOfInt(n \div 256)

\* only for values that fit TLC's integers (at most 3 digits)
RECURSIVE IntOfNat(_)
IntOfNat(d) == IF d = <<>> THEN 0 ELSE Head(d) + 256 * IntOfNat(Tail(d))

Rep(b, n) == [i \in 1..n |-> b]

\* std::numeric_limits<T>::max() of the unsigned type of w bytes
MaxU(w) == Rep(255, w)

(***************************************************************************)
(* Encoding                                                                *)
(***************************************************************************)
nullptr == 0

\* sizeOfTokenFromFirstByte without the test b >= 0xE0
sizeOfTokenFromFirstByteBelowE0(b) ==
    IF b < 192 /\ (b % 32) < 24 THEN 1 ELSE 2 + (b % 8)

\* Encoding::sizeOfTokenFromFirstByte(b); b & 0x1F and b & 7 are the
\* remainders of b by 32 and by 8
sizeOfTokenFromFirstByte(b) ==
    IF b >= 224 \/ (b < 192 /\ (b % 32) < 24) THEN 1 ELSE 2 + (b % 8)

\* readUintLeFromBuffer<F>(p, n) for n <= sizeof(F): the unsigned integer
\* with the little-endian representation mem[p] ... mem[p + n - 1]
readUintLeFromBuffer(mem, p, n) == Norm([i \in 1..n |-> mem[p + i - 1]])

\* the low w bytes of a Nat: the value modulo 2^(8w)
Wrap(d, w) == Norm(SubSeq(d, 1, IF Len(d) < w THEN Len(d) ELSE w))

\* impl::decodeNaturalTokenData without its range check: v + d wraps in T
decodeNaturalTokenDataWraps(w, mem, p, n, offset) ==
    IF n = 0 \/ n > w
    THEN [ok |-> FALSE, value |-> <<>>]
    ELSE LET v == Norm([i \in 1..n |-> mem[p + i - 1]])
             d == Wrap(NatAdd(Rep(1, n), offset), w)
         IN  [ok |-> TRUE, value |-> Wrap(NatAdd(v, d), w)]

\* impl::decodeNaturalTokenData<T>(value, p, n, offset) with sizeof(T) = w
\* and F = T; offset is a Nat below 2^32 and every sum is taken modulo
\* 2^(8w) as in the code; the result is (return value, value)
decodeNaturalTokenData(w, mem, p, n, offset) ==
    IF n = 0 \/ n > w
    THEN [ok |-> FALSE, value |-> <<>>]
    ELSE LET v == readUintLeFromBuffer(mem, p, n)
             d == Wrap(NatAdd(Rep(1, n), offset), w)
         IN  IF NatLe(v, NatSub(MaxU(w), d))
             THEN [ok |-> TRUE, value |-> Wrap(NatAdd(v, d), w)]
             ELSE [ok |-> FALSE, value |-> <<>>]

\* the std::uint16_t overload without its comparison with UINT16_MAX
decodeNaturalTokenData16Unchecked(mem, p, n, offset) ==
    LET r == decodeNaturalTokenData(4, mem, p, n, offset)
    IN  [ok |-> r.ok, value |-> Wrap(r.value, 2)]

\* Encoding::decodeNaturalTokenData(std::uint16_t &value, p, n, offset)
decodeNaturalTokenData16(mem, p, n, offset) ==
    LET r == decodeNaturalTokenData(4, mem, p, n, offset)
    IN  IF NatLt(MaxU(2), r.value)
        THEN [ok |-> FALSE, value |-> <<>>]
        ELSE r

\* the bytes of encodeNaturalTokenData: decrement, take the low byte, shift
\* right by 8, until the value is 0
RECURSIVE naturalTokenBytes(_)
naturalTokenBytes(v) ==
    IF v = <<>> THEN <<>>
    ELSE LET v1 == NatSub(v, <<1>>)
         IN  IF v1 = <<>> THEN <<0>>
             ELSE <<Head(v1)>> \o naturalTokenBytes(Tail(v1))

\* Encoding::encodeNaturalTokenData(value, p, capacity): the result is
\* (return value, bytes written at p)
encodeNaturalTokenData(value, capacity) ==
    LET bytes == naturalTokenBytes(value)
    IN  IF Len(bytes) > capacity
        THEN [n |-> 0, bytes |-> <<>>]
        ELSE [n |-> Len(bytes), bytes |-> bytes]

\* sizeof(std::size_t), in bytes, of the build that is modelled
SizeOfSizeT == 8

\* The bytes Encoding::sizeOfValueIn(p, capacity) reads, as offsets from p
sizeOfValueInReads(mem, p, capacity) ==
    IF capacity = 0 THEN {}
    ELSE LET firstByte == mem[p]
             sizeOfFirst == sizeOfTokenFromFirstByte(firstByte)
         IN  IF firstByte < 64 \/ firstByte >= 240 \/ firstByte \div 8 = 25
             THEN {0}
             ELSE IF firstByte < 208
             THEN IF firstByte < 192 /\ (firstByte % 32) < 24
                  THEN {0}
                  ELSE IF sizeOfFirst <= capacity
                       THEN 0..(sizeOfFirst - 1)
                       ELSE {0}
             ELSE IF sizeOfFirst >= capacity
                  THEN {0}
                  ELSE {0, sizeOfFirst}

\* Encoding::sizeOfValueIn(p, capacity): a std::size_t, as a Nat
sizeOfValueIn(mem, p, capacity) ==
    IF capacity = 0 THEN <<>>
    ELSE LET firstByte == mem[p]
             sizeOfFirst == sizeOfTokenFromFirstByte(firstByte)
         IN  IF firstByte < 64 \/ firstByte >= 240 \/ firstByte \div 8 = 25
             THEN NatOfInt(sizeOfFirst)
             ELSE IF firstByte < 208
             THEN LET m == firstByte % 32
                      inl == firstByte < 192 /\ m < 24
                      offset == IF firstByte < 192 THEN sizeOfFirst + 23
                                ELSE sizeOfFirst
                  IN  IF inl THEN NatOfInt(sizeOfFirst + m)
                      ELSE IF sizeOfFirst <= capacity
                      THEN LET r == decodeNaturalTokenData(SizeOfSizeT, mem, p + 1,
                                                           sizeOfFirst - 1,
                                                           NatOfInt(offset))
                           IN  IF r.ok THEN r.value ELSE <<>>
                      ELSE <<>>
             ELSE IF sizeOfFirst >= capacity THEN <<>>
                  ELSE LET firstByteOfSecond == mem[p + sizeOfFirst]
                       IN  IF firstByteOfSecond > 64
                           THEN NatOfInt(sizeOfFirst)
                           ELSE NatOfInt(sizeOfFirst
                                         + sizeOfTokenFromFirstByte(firstByteOfSecond))

(***************************************************************************)
(* Value                                                                   *)
(***************************************************************************)
\* Value::Value()
EmptyValue == [buffer |-> nullptr, size |-> 0, isComplete |-> FALSE]

\* Value::Value(buffer, capacity) that leaves size_ as computed when the
\* value is incomplete (a slip the real constructor does not make)
ValueKeepsComputedSize(mem, p, capacity) ==
    IF p # nullptr /\ capacity # 0
    THEN LET s == sizeOfValueIn(mem, p, capacity)
             complete == s # <<>> /\ NatLe(s, NatOfInt(capacity))
         IN  [buffer |-> p,
              size |-> IF complete THEN IntOfNat(s) ELSE 0,
              isComplete |-> complete]
    ELSE EmptyValue

\* Value::Value(buffer, capacity) that gives an incomplete value the size of
\* one byte instead of the capacity
ValueIncompleteOneByte(mem, p, capacity) ==
    IF p # nullptr /\ capacity # 0
    THEN LET s == sizeOfValueIn(mem, p, capacity)
             complete == s # <<>> /\ NatLe(s, NatOfInt(capacity))
         IN  [buffer |-> p,
              size |-> IF complete THEN IntOfNat(s) ELSE 1,
              isComplete |-> complete]
    ELSE EmptyValue

\* Value::Value(buffer, capacity)
Value(mem, p, capacity) ==
    IF p # nullptr /\ capacity # 0
    THEN LET s == sizeOfValueIn(mem, p, capacity)
             complete == s # <<>> /\ NatLe(s, NatOfInt(capacity))
         IN  [buffer |-> p,
              size |-> IF complete THEN IntOfNat(s) ELSE capacity,
              isComplete |-> complete]
    ELSE EmptyValue

\* Value::isNone()
isNone(mem, val) == val.buffer # nullptr /\ mem[val.buffer] = 255

\* Value::isNumberlike()
isNumberlike(mem, val) ==
    val.buffer # nullptr /\ mem[val.buffer] >= 252 /\ mem[val.buffer] # 255

\* isNumber() without the upper limit 0xF0 of the first byte
isNumberUnlimited(mem, val) ==
    val.buffer # nullptr /\ (mem[val.buffer] < 64 \/ mem[val.buffer] >= 200)

\* Value::isNumber()
isNumber(mem, val) ==
    val.buffer # nullptr
        /\ (mem[val.buffer] < 64
               \/ (mem[val.buffer] >= 200 /\ mem[val.buffer] < 240))

\* Value::isString()
isString(mem, val) ==
    val.buffer # nullptr /\ mem[val.buffer] >= 64 /\ mem[val.buffer] < 128

\* Value::isContainer()
isContainer(mem, val) ==
    val.buffer # nullptr /\ mem[val.buffer] >= 128 /\ mem[val.buffer] < 200

(***************************************************************************)
(* Integer getters.  An integer that is read out is the record            *)
(* [neg, mag]: the sign and the magnitude (a Nat); zero is never negative. *)
(* A target type is its size in bytes and whether it is signed.            *)
(***************************************************************************)
IntZero == [neg |-> FALSE, mag |-> <<>>]

Pos(m) == [neg |-> FALSE, mag |-> Norm(m)]
Neg(m) == [neg |-> Norm(m) # <<>>, mag |-> Norm(m)]

\* std::numeric_limits<T>::max() and min() of the signed type of w bytes
MaxS(w) == Rep(255, w - 1) \o <<127>>
MinSMag(w) == Rep(0, w - 1) \o <<128>>

MaxOf(signed, w) == Pos(IF signed THEN MaxS(w) ELSE MaxU(w))
MinOf(signed, w) == IF signed THEN Neg(MinSMag(w)) ELSE IntZero

\* The magnitude token of an IntegerToken at p whose bytes are all present:
\* u with the value being u or -(u + 1); ok is false if u does not fit 64 bits
integerTokenMagnitude(mem, p) ==
    LET first == mem[p]
        m == first % 32
    IN  IF m < 24
        THEN [ok |-> TRUE, value |-> NatOfInt(m)]
        ELSE decodeNaturalTokenData(8, mem, p + 1, (first % 8) + 1, <<23>>)

\* impl::getUnsignedInteger(value, p, size) and impl::getSignedInteger(value,
\* p, size) for the target type (signed, w)
getInteger(signed, w, mem, p, size) ==
    IF p = nullptr \/ size = 0
    THEN [result |-> "INCOMPLETE", value |-> IntZero]
    ELSE LET first == mem[p]
         IN  IF first < 64
             THEN IF size < sizeOfTokenFromFirstByte(first)
                  THEN [result |-> "INCOMPLETE", value |-> IntZero]
                  ELSE LET u == integerTokenMagnitude(mem, p)
                           max == MaxOf(signed, w)
                           min == MinOf(signed, w)
                       IN  IF first < 32
                           THEN IF u.ok /\ NatLe(u.value, max.mag)
                                THEN [result |-> "OK", value |-> Pos(u.value)]
                                ELSE [result |-> "APPROX_EXTREME", value |-> max]
                           ELSE IF u.ok /\ NatLt(u.value, min.mag)
                                THEN [result |-> "OK",
                                      value |-> Neg(NatAdd(u.value, <<1>>))]
                                ELSE [result |-> "APPROX_EXTREME", value |-> min]
             ELSE IF first = 252
             THEN [result |-> "APPROX_IMPRECISE", value |-> IntZero]
             ELSE IF first = 253
             THEN [result |-> "APPROX_EXTREME", value |-> MinOf(signed, w)]
             ELSE IF first = 254
             THEN [result |-> "APPROX_EXTREME", value |-> MaxOf(signed, w)]
             ELSE IF first = 255
             THEN [result |-> "NO_OBJECT", value |-> IntZero]
             ELSE [result |-> "INCOMPATIBLE", value |-> IntZero]

\* Value::get(std::uint8_t &) .. Value::get(std::int64_t &): the getter of the
\* target type (signed, w) hands buffer_ and size_ to the integer decoder
getIntegerValue(signed, w, mem, val) ==
    getInteger(signed, w, mem, val.buffer, val.size)

(***************************************************************************)
(* Binary floating-point patterns.  A binary64 pattern is the record       *)
(* [neg, exp, hi, lo] of its sign bit, its 11 exponent bits, the upper 23  *)
(* and the lower 29 bits of its mantissa; a binary32 pattern is            *)
(* [neg, exp, mant] with 8 exponent bits and 23 mantissa bits.             *)
(***************************************************************************)
\* The bits of a little-endian byte sequence, least significant first
BitsOf(bytes) ==
    [i \in 1..(8 * Len(bytes)) |->
        (bytes[((i - 1) \div 8) + 1] \div (2 ^ ((i - 1) % 8))) % 2]

Bit(bits, i) == IF i >= 1 /\ i <= Len(bits) THEN bits[i] ELSE 0

RECURSIVE IntOfBits(_)
IntOfBits(bits) ==
    IF bits = <<>> THEN 0 ELSE Head(bits) + 2 * IntOfBits(Tail(bits))

\* The n bits of bits from position a (1 is the least significant) upwards
Field(bits, a, n) == IntOfBits([i \in 1..n |-> Bit(bits, a + i - 1)])

F32(s, e, m) == [neg |-> s, exp |-> e, mant |-> m]
F64(s, e, h, l) == [neg |-> s, exp |-> e, hi |-> h, lo |-> l]

\* std::numeric_limits<T>::quiet_NaN(), infinity(), 0.0 and -0.0
NaN32 == F32(FALSE, 255, 2 ^ 22)
NaN64 == F64(FALSE, 2047, 2 ^ 22, 0)
Inf32(neg) == F32(neg, 255, 0)
Inf64(neg) == F64(neg, 2047, 0, 0)
Zero32(neg) == F32(neg, 0, 0)
Zero64(neg) == F64(neg, 0, 0, 0)

\* Encoding::decodeBinaryRationalTokenData32(p, k), k < 4
decodeBinaryRationalTokenData32(mem, p, k) ==
    LET raw == BitsOf(SubSeq(mem, p, p + k))
        top == 8 * (k + 1)
        isNeg == raw[top] = 1
        v == [i \in 1..top |-> IF i = top THEN 0 ELSE raw[i]]
    IN  IF k < 3
        THEN LET mantissaAligned == Rep(0, 19 - 6 * k) \o v
                 exp == Field(mantissaAligned, 24, 9) + 128 - 2 ^ (2 * (k + 1))
             IN  F32(isNeg, exp, Field(mantissaAligned, 1, 23))
        ELSE F32(isNeg, Field(v, 24, 8), Field(v, 1, 23))

\* Encoding::decodeBinaryRationalTokenData64(p, k), 4 <= k < 8
decodeBinaryRationalTokenData64(mem, p, k) ==
    LET raw == BitsOf(SubSeq(mem, p, p + k))
        top == 8 * (k + 1)
        isNeg == raw[top] = 1
        v == [i \in 1..top |-> IF i = top THEN 0 ELSE raw[i]]
    IN  IF k < 7
        THEN LET mantissaAligned == Rep(0, 50 - 7 * k) \o v
                 exp == Field(mantissaAligned, 53, 12) + 1024 - 2 ^ (k + 4)
             IN  F64(isNeg, exp, Field(mantissaAligned, 30, 23),
                     Field(mantissaAligned, 1, 29))
        ELSE F64(isNeg, Field(v, 53, 11), Field(v, 30, 23), Field(v, 1, 29))

\* Encoding::convertBinaryRational32ToBinary64(value)
convertBinaryRational32ToBinary64(value) ==
    F64(value.neg, value.exp + (1023 - 127), value.mant, 0)

\* Encoding::convertBinaryRational64ToBinary32(value, absDir) that overlooks
\* the bits shifted out of a denormalized result
convertBinaryRational64ToBinary32IgnoresShift(value) ==
    LET exp == value.exp
        mant == value.hi
        lowBits == value.lo # 0
    IN  IF exp > 1023 + 127
        THEN [v |-> Inf32(value.neg), absDir |-> 1]
        ELSE IF exp >= 1023 - 126
        THEN [v |-> F32(value.neg, exp - (1023 - 127), mant),
              absDir |-> IF lowBits THEN -1 ELSE 0]
        ELSE LET h == (1023 - 126) - exp
                 m == mant + 2 ^ 23
             IN  IF h < 24
                 THEN [v |-> F32(value.neg, (m \div (2 ^ h)) \div (2 ^ 23),
                                 (m \div (2 ^ h)) % (2 ^ 23)),
                       absDir |-> IF lowBits THEN -1 ELSE 0]
                 ELSE [v |-> Zero32(value.neg), absDir |-> -1]

\* Encoding::convertBinaryRational64ToBinary32(value, absDir)
convertBinaryRational64ToBinary32(value) ==
    LET exp == value.exp
        mant == value.hi
        lowBits == value.lo # 0
    IN  IF exp > 1023 + 127
        THEN [v |-> Inf32(value.neg), absDir |-> 1]
        ELSE IF exp >= 1023 - 126
        THEN [v |-> F32(value.neg, exp - (1023 - 127), mant),
              absDir |-> IF lowBits THEN -1 ELSE 0]
        ELSE LET h == (1023 - 126) - exp
                 m == mant + 2 ^ 23
             IN  IF h < 24
                 THEN [v |-> F32(value.neg, (m \div (2 ^ h)) \div (2 ^ 23),
                                 (m \div (2 ^ h)) % (2 ^ 23)),
                       absDir |-> IF lowBits \/ m % (2 ^ h) # 0 THEN -1 ELSE 0]
                 ELSE [v |-> Zero32(value.neg), absDir |-> -1]

\* Encoding::decodeBinaryRationalTokenData(p, k)
decodeBinaryRationalTokenData(mem, p, k) ==
    IF k >= 4
    THEN decodeBinaryRationalTokenData64(mem, p, k)
    ELSE convertBinaryRational32ToBinary64(decodeBinaryRationalTokenData32(mem, p, k))

IsZero64(v) == v.exp = 0 /\ v.hi = 0 /\ v.lo = 0

(***************************************************************************)
(* The other getters of Value.  Each takes the memory, the Value and what  *)
(* its output arguments held before the call (prior), and yields the       *)
(* result code with what the output arguments hold afterwards.             *)
(***************************************************************************)
MINUS_ZERO == 252
MINUS_INF == 253
INF == 254
NONE == 255

\* get(float &) without the initial assignment of NaN to value
getFloatKeepsPrior(mem, val, prior) ==
    LET value == prior
    IN  IF ~val.isComplete
        THEN [result |-> "INCOMPLETE", value |-> value]
        ELSE LET first == mem[val.buffer]
                 k == first % 8
             IN  IF first \div 8 = 25
                 THEN IF k >= val.size
                      THEN [result |-> "INCOMPLETE", value |-> value]
                      ELSE LET v64 == decodeBinaryRationalTokenData(mem, val.buffer + 1, k)
                               c == convertBinaryRational64ToBinary32(v64)
                           IN  IF k = 7 /\ IsZero64(v64)
                               THEN [result |-> "ILLFORMED", value |-> value]
                               ELSE [result |-> IF c.absDir > 0 THEN "APPROX_EXTREME"
                                                ELSE IF c.absDir < 0 THEN "APPROX_IMPRECISE"
                                                ELSE "OK",
                                     value |-> c.v]
                 ELSE IF first = 0 THEN [result |-> "OK", value |-> Zero32(FALSE)]
                 ELSE IF first = NONE THEN [result |-> "NO_OBJECT", value |-> value]
                 ELSE IF first = MINUS_ZERO THEN [result |-> "OK", value |-> Zero32(TRUE)]
                 ELSE IF first = MINUS_INF THEN [result |-> "OK", value |-> Inf32(TRUE)]
                 ELSE IF first = INF THEN [result |-> "OK", value |-> Inf32(FALSE)]
                 ELSE [result |-> "INCOMPATIBLE", value |-> value]

\* Value::get(float &)
getFloat(mem, val, prior) ==
    LET value == NaN32
    IN  IF ~val.isComplete
        THEN [result |-> "INCOMPLETE", value |-> value]
        ELSE LET first == mem[val.buffer]
                 k == first % 8
             IN  IF first \div 8 = 25
                 THEN IF k >= val.size
                      THEN [result |-> "INCOMPLETE", value |-> value]
                      ELSE LET v64 == decodeBinaryRationalTokenData(mem, val.buffer + 1, k)
                               c == convertBinaryRational64ToBinary32(v64)
                           IN  IF k = 7 /\ IsZero64(v64)
                               THEN [result |-> "ILLFORMED", value |-> value]
                               ELSE [result |-> IF c.absDir > 0 THEN "APPROX_EXTREME"
                                                ELSE IF c.absDir < 0 THEN "APPROX_IMPRECISE"
                                                ELSE "OK",
                                     value |-> c.v]
                 ELSE IF first = 0 THEN [result |-> "OK", value |-> Zero32(FALSE)]
                 ELSE IF first = NONE THEN [result |-> "NO_OBJECT", value |-> value]
                 ELSE IF first = MINUS_ZERO THEN [result |-> "OK", value |-> Zero32(TRUE)]
                 ELSE IF first = MINUS_INF THEN [result |-> "OK", value |-> Inf32(TRUE)]
                 ELSE IF first = INF THEN [result |-> "OK", value |-> Inf32(FALSE)]
                 ELSE [result |-> "INCOMPATIBLE", value |-> value]

\* get(double &) without the test for the maximum exponent of k = 7
getDoubleKeepsMaxExponent(mem, val, prior) ==
    LET value == NaN64
    IN  IF ~val.isComplete
        THEN [result |-> "INCOMPLETE", value |-> value]
        ELSE LET first == mem[val.buffer]
                 k == first % 8
             IN  IF first \div 8 = 25
                 THEN IF k >= val.size
                      THEN [result |-> "INCOMPLETE", value |-> value]
                      ELSE LET v64 == decodeBinaryRationalTokenData(mem, val.buffer + 1, k)
                           IN  IF k = 7 /\ IsZero64(v64)
                               THEN [result |-> "ILLFORMED", value |-> value]
                               ELSE [result |-> "OK", value |-> v64]
                 ELSE IF first = 0 THEN [result |-> "OK", value |-> Zero64(FALSE)]
                 ELSE IF first = NONE THEN [result |-> "NO_OBJECT", value |-> value]
                 ELSE IF first = MINUS_ZERO THEN [result |-> "OK", value |-> Zero64(TRUE)]
                 ELSE IF first = MINUS_INF THEN [result |-> "OK", value |-> Inf64(TRUE)]
                 ELSE IF first = INF THEN [result |-> "OK", value |-> Inf64(FALSE)]
                 ELSE [result |-> "INCOMPATIBLE", value |-> value]

\* Value::get(double &)
getDouble(mem, val, prior) ==
    LET value == NaN64
    IN  IF ~val.isComplete
        THEN [result |-> "INCOMPLETE", value |-> value]
        ELSE LET first == mem[val.buffer]
                 k == first % 8
             IN  IF first \div 8 = 25
                 THEN IF k >= val.size
                      THEN [result |-> "INCOMPLETE", value |-> value]
                      ELSE LET v64 == decodeBinaryRationalTokenData(mem, val.buffer + 1, k)
                           IN  IF k = 7 /\ IsZero64(v64)
                               THEN [result |-> "ILLFORMED", value |-> value]
                               ELSE IF k = 7 /\ v64.exp = 2047
                               THEN [result |-> "APPROX_EXTREME", value |-> Inf64(v64.neg)]
                               ELSE [result |-> "OK", value |-> v64]
                 ELSE IF first = 0 THEN [result |-> "OK", value |-> Zero64(FALSE)]
                 ELSE IF first = NONE THEN [result |-> "NO_OBJECT", value |-> value]
                 ELSE IF first = MINUS_ZERO THEN [result |-> "OK", value |-> Zero64(TRUE)]
                 ELSE IF first = MINUS_INF THEN [result |-> "OK", value |-> Inf64(TRUE)]
                 ELSE IF first = INF THEN [result |-> "OK", value |-> Inf64(FALSE)]
                 ELSE [result |-> "INCOMPATIBLE", value |-> value]

\* the bytes read by Encoding::decodeBinaryRationalTokenData(p, k): p[k]
\* first, then down to p[0]
decodeBinaryRationalTokenDataReads(p, k) == p..(p + k)

\* the bytes of the memory read by get(float &)
getFloatReads(mem, val) ==
    IF ~val.isComplete
    THEN {}
    ELSE LET first == mem[val.buffer]
             k == first % 8
         IN  {val.buffer}
                 \cup IF first \div 8 = 25 /\ ~(k >= val.size)
                      THEN decodeBinaryRationalTokenDataReads(val.buffer + 1, k)
                      ELSE {}

\* the bytes of the memory read by get(double &)
getDoubleReads(mem, val) ==
    IF ~val.isComplete
    THEN {}
    ELSE LET first == mem[val.buffer]
             k == first % 8
         IN  {val.buffer}
                 \cup IF first \div 8 = 25 /\ ~(k >= val.size)
                      THEN decodeBinaryRationalTokenDataReads(val.buffer + 1, k)
                      ELSE {}

\* What a build makes of the negation of INT32_MIN as a signed integer
SignedOverflowOutcomes == {"wraps", "traps"}

\* APPROX_EXTREME of the mantissa becomes APPROX_IMPRECISE of the decimal
extremeToImprecise(r) == IF r = "APPROX_EXTREME" THEN "APPROX_IMPRECISE" ELSE r

\* get(mant, exp10) without the initial assignments of 0 to mant and exp10
getDecimalKeepsPrior(mem, val, prior, overflow) ==
    LET mant0 == prior.mant
        exp0 == prior.exp10
        dflt(r) == [result |-> r, mant |-> mant0, exp10 |-> exp0]
    IN  IF ~val.isComplete THEN dflt("INCOMPLETE")
        ELSE LET first == mem[val.buffer]
             IN  IF first < 64
                 THEN LET r == getIntegerValue(TRUE, 4, mem, val)
                      IN  [result |-> extremeToImprecise(r.result),
                           mant |-> r.value, exp10 |-> exp0]
                 ELSE IF first < 208 THEN dflt("INCOMPATIBLE")
                 ELSE IF first >= 240
                 THEN IF first = MINUS_ZERO THEN dflt("APPROX_IMPRECISE")
                      ELSE IF first = MINUS_INF
                      THEN [result |-> "APPROX_EXTREME", mant |-> MinOf(TRUE, 4),
                            exp10 |-> MaxOf(TRUE, 4)]
                      ELSE IF first = INF
                      THEN [result |-> "APPROX_EXTREME", mant |-> MaxOf(TRUE, 4),
                            exp10 |-> MaxOf(TRUE, 4)]
                      ELSE IF first = NONE THEN dflt("NO_OBJECT")
                      ELSE dflt("INCOMPATIBLE")
                 ELSE LET short == first \div 16 = 14
                          firstTokenSize == IF short THEN 1 ELSE 2 + (first % 8)
                          d == decodeNaturalTokenData(4, mem, val.buffer + 1,
                                                      firstTokenSize - 1, <<8>>)
                          eAbs == IF short THEN NatOfInt((first % 8) + 1)
                                  ELSE IF d.ok THEN d.value ELSE MaxU(4)
                          second == val.buffer + firstTokenSize
                      IN  IF ~short /\ val.size < firstTokenSize THEN dflt("INCOMPLETE")
                          ELSE IF val.size <= firstTokenSize \/ mem[second] = 0
                                  \/ mem[second] >= 64
                          THEN dflt("ILLFORMED")
                          ELSE LET m == getInteger(TRUE, 4, mem, second,
                                                   val.size - firstTokenSize)
                               IN  IF (first \div 8) % 2 = 1
                                   THEN IF NatLe(eAbs, MinSMag(4))
                                        THEN IF eAbs = MinSMag(4) /\ overflow = "traps"
                                             THEN [result |-> "TRAPPED",
                                                   mant |-> m.value, exp10 |-> exp0]
                                             ELSE [result |-> extremeToImprecise(m.result),
                                                   mant |-> m.value, exp10 |-> Neg(eAbs)]
                                        ELSE dflt("UNSUPPORTED")
                                   ELSE IF NatLe(eAbs, MaxS(4))
                                        THEN [result |-> m.result,
                                              mant |-> m.value, exp10 |-> Pos(eAbs)]
                                        ELSE dflt("UNSUPPORTED")

\* Value::get(std::int32_t &mant, std::int32_t &exp10).  For eAbs = 2^31 the
\* statement exp10 = -static_cast<std::int32_t>(eAbs) negates INT32_MIN as a
\* signed integer, which is undefined: overflow says what the build makes of
\* it, INT32_MIN again (two's complement negation) or a trap that ends the
\* program inside the call, after mant was assigned and before exp10 is.
getDecimal(mem, val, prior, overflow) ==
    LET mant0 == IntZero
        exp0 == IntZero
        dflt(r) == [result |-> r, mant |-> mant0, exp10 |-> exp0]
    IN  IF ~val.isComplete THEN dflt("INCOMPLETE")
        ELSE LET first == mem[val.buffer]
             IN  IF first < 64
                 THEN LET r == getIntegerValue(TRUE, 4, mem, val)
                      IN  [result |-> extremeToImprecise(r.result),
                           mant |-> r.value, exp10 |-> exp0]
                 ELSE IF first < 208 THEN dflt("INCOMPATIBLE")
                 ELSE IF first >= 240
                 THEN IF first = MINUS_ZERO THEN dflt("APPROX_IMPRECISE")
                      ELSE IF first = MINUS_INF
                      THEN [result |-> "APPROX_EXTREME", mant |-> MinOf(TRUE, 4),
                            exp10 |-> MaxOf(TRUE, 4)]
                      ELSE IF first = INF
                      THEN [result |-> "APPROX_EXTREME", mant |-> MaxOf(TRUE, 4),
                            exp10 |-> MaxOf(TRUE, 4)]
                      ELSE IF first = NONE THEN dflt("NO_OBJECT")
                      ELSE dflt("INCOMPATIBLE")
                 ELSE LET short == first \div 16 = 14
                          firstTokenSize == IF short THEN 1 ELSE 2 + (first % 8)
                          d == decodeNaturalTokenData(4, mem, val.buffer + 1,
                                                      firstTokenSize - 1, <<8>>)
                          eAbs == IF short THEN NatOfInt((first % 8) + 1)
                                  ELSE IF d.ok THEN d.value ELSE MaxU(4)
                          second == val.buffer + firstTokenSize
                      IN  IF ~short /\ val.size < firstTokenSize THEN dflt("INCOMPLETE")
                          ELSE IF val.size <= firstTokenSize \/ mem[second] = 0
                                  \/ mem[second] >= 64
                          THEN dflt("ILLFORMED")
                          ELSE LET m == getInteger(TRUE, 4, mem, second,
                                                   val.size - firstTokenSize)
                               IN  IF (first \div 8) % 2 = 1
                                   THEN IF NatLe(eAbs, MinSMag(4))
                                        THEN IF eAbs = MinSMag(4) /\ overflow = "traps"
                                             THEN [result |-> "TRAPPED",
                                                   mant |-> m.value, exp10 |-> exp0]
                                             ELSE [result |-> extremeToImprecise(m.result),
                                                   mant |-> m.value, exp10 |-> Neg(eAbs)]
                                        ELSE dflt("UNSUPPORTED")
                                   ELSE IF NatLe(eAbs, MaxS(4))
                                        THEN [result |-> m.result,
                                              mant |-> m.value, exp10 |-> Pos(eAbs)]
                                        ELSE dflt("UNSUPPORTED")

\* String() and String(buffer, size)
EmptyString == [buffer |-> nullptr, size |-> 0]
String(p, size) ==
    [buffer |-> IF size # 0 THEN p ELSE nullptr,
     size |-> IF p # nullptr THEN size ELSE 0]

\* String::INVALID_CODEPOINT: all bits of a CodePoint set, written as the
\* signed number with that representation
INVALID_CODEPOINT == -1

\* String::sizeOfUtf8ForCodepoint(codePoint)
sizeOfUtf8ForCodepoint(codePoint) ==
    IF codePoint < 128 THEN 1
    ELSE IF codePoint < 2048 THEN 2
    ELSE IF codePoint < 65536
    THEN IF codePoint >= 55296 /\ codePoint <= 57343 THEN 0 ELSE 3
    ELSE IF codePoint < 1114112 THEN 4
    ELSE 0

\* a & b for non-negative a and b
RECURSIVE BitAnd(_, _)
BitAnd(a, b) ==
    IF a = 0 \/ b = 0 THEN 0
    ELSE (a % 2) * (b % 2) + 2 * BitAnd(a \div 2, b \div 2)

\* the loop of String::firstCodepointInNonEmpty over the bytes after the
\* first one: (c, size, offsets read from p)
RECURSIVE continuationBytes(_, _, _, _, _)
continuationBytes(mem, p, n, c, i) ==
    LET b == mem[p + i]
    IN  IF BitAnd(b, 192) # 128
        THEN [c |-> INVALID_CODEPOINT, size |-> i, reads |-> 0..i]
        ELSE LET c1 == c * 64 + BitAnd(b, 63)
             IN  IF i + 1 >= n
                 THEN [c |-> c1, size |-> n, reads |-> 0..i]
                 ELSE continuationBytes(mem, p, n, c1, i + 1)

\* firstCodepointInNonEmpty without the comparison of n with
\* sizeOfUtf8ForCodepoint(c)
firstCodepointInNonEmptyAnyForm(mem, p, capacity) ==
    LET first == mem[p]
    IN  IF first < 128 THEN [c |-> first, size |-> 1, reads |-> {0}]
        ELSE IF first < 192 \/ first >= 248
        THEN [c |-> INVALID_CODEPOINT, size |-> 1, reads |-> {0}]
        ELSE LET h == BitAnd((255 - first) \div 16, first \div 32)
                 n == 4 - h
             IN  IF n > capacity
                 THEN [c |-> INVALID_CODEPOINT, size |-> capacity, reads |-> {0}]
                 ELSE continuationBytes(mem, p, n,
                                        BitAnd(first, 127 \div (2 ^ n)), 1)

\* String::firstCodepointInNonEmpty(p, capacity, size): (return value, size,
\* offsets read from p); the low bits of ~first >> 4 that first >> 5 keeps
\* are those of (255 - first) >> 4
firstCodepointInNonEmpty(mem, p, capacity) ==
    LET first == mem[p]
    IN  IF first < 128 THEN [c |-> first, size |-> 1, reads |-> {0}]
        ELSE IF first < 192 \/ first >= 248
        THEN [c |-> INVALID_CODEPOINT, size |-> 1, reads |-> {0}]
        ELSE LET h == BitAnd((255 - first) \div 16, first \div 32)
                 n == 4 - h
             IN  IF n > capacity
                 THEN [c |-> INVALID_CODEPOINT, size |-> capacity, reads |-> {0}]
                 ELSE LET r == continuationBytes(mem, p, n,
                                                 BitAnd(first, 127 \div (2 ^ n)), 1)
                      IN  IF r.c # INVALID_CODEPOINT
                             /\ n # sizeOfUtf8ForCodepoint(r.c)
                          THEN [c |-> INVALID_CODEPOINT, size |-> n,
                                reads |-> r.reads]
                          ELSE r

\* String::firstCodepointIn(p, capacity, size)
firstCodepointIn(mem, p, capacity) ==
    IF p # nullptr /\ capacity # 0
    THEN firstCodepointInNonEmpty(mem, p, capacity)
    ELSE [c |-> INVALID_CODEPOINT, size |-> 0, reads |-> {}]

\* a < b for CodePoints, which are unsigned: INVALID_CODEPOINT is the largest
CodePointLess(a, b) ==
    a # b /\ (b = INVALID_CODEPOINT \/ (a # INVALID_CODEPOINT /\ a < b))

\* the loop of String::checkNonEmpty from p with the given unprocessed
\* bytes, n code points found and their minimum and maximum so far
RECURSIVE checkNonEmptyFrom(_, _, _, _, _, _)
checkNonEmptyFrom(mem, p, unprocessed, n, minc, maxc) ==
    LET r == firstCodepointInNonEmpty(mem, p, unprocessed)
    IN  IF r.c = INVALID_CODEPOINT
        THEN [result |-> "ILLFORMED", count |-> 0,
              minCodePoint |-> INVALID_CODEPOINT,
              maxCodePoint |-> INVALID_CODEPOINT]
        ELSE LET minc1 == IF CodePointLess(r.c, minc) THEN r.c ELSE minc
                 maxc1 == IF CodePointLess(maxc, r.c) THEN r.c ELSE maxc
             IN  IF unprocessed - r.size = 0
                 THEN [result |-> "OK", count |-> n + 1,
                       minCodePoint |-> minc1, maxCodePoint |-> maxc1]
                 ELSE checkNonEmptyFrom(mem, p + r.size, unprocessed - r.size,
                                        n + 1, minc1, maxc1)

\* String::checkNonEmpty(count, minCodePoint, maxCodePoint) of the String s
checkNonEmpty(mem, s) ==
    checkNonEmptyFrom(mem, s.buffer, s.size, 0, INVALID_CODEPOINT, 0)

\* String::getAscii(buffer, size, printableOnly) of the String s
getAscii(mem, s, printableOnly) ==
    LET none(r) == [result |-> r, buffer |-> nullptr, size |-> 0]
    IN  IF s.size # 0
        THEN LET r == checkNonEmpty(mem, s)
             IN  IF r.result = "OK"
                 THEN IF (IF printableOnly
                          THEN ~CodePointLess(r.minCodePoint, 32)
                               /\ CodePointLess(r.maxCodePoint, 127)
                          ELSE CodePointLess(r.maxCodePoint, 128))
                      THEN [result |-> "OK", buffer |-> s.buffer,
                            size |-> s.size]
                      ELSE none("RANGE")
                 ELSE none(r.result)
        ELSE none("OK")

\* getUtf8 that compares the code points with maxCodePoint only
getUtf8IgnoresMin(mem, s, minCodePoint, maxCodePoint) ==
    LET none(r) == [result |-> r, buffer |-> nullptr, size |-> 0]
    IN  IF s.size # 0
        THEN LET r == checkNonEmpty(mem, s)
             IN  IF r.result = "OK"
                 THEN IF ~CodePointLess(maxCodePoint, r.maxCodePoint)
                      THEN [result |-> "OK", buffer |-> s.buffer,
                            size |-> s.size]
                      ELSE none("RANGE")
                 ELSE none(r.result)
        ELSE none("OK")

\* String::getUtf8(buffer, size, minCodePoint, maxCodePoint) of the String s
getUtf8(mem, s, minCodePoint, maxCodePoint) ==
    LET none(r) == [result |-> r, buffer |-> nullptr, size |-> 0]
    IN  IF s.size # 0
        THEN LET r == checkNonEmpty(mem, s)
             IN  IF r.result = "OK"
                 THEN IF ~CodePointLess(r.minCodePoint, minCodePoint)
                         /\ ~CodePointLess(maxCodePoint, r.maxCodePoint)
                      THEN [result |-> "OK", buffer |-> s.buffer,
                            size |-> s.size]
                      ELSE none("RANGE")
                 ELSE none(r.result)
        ELSE none("OK")

\* String::offsetOfLastCodepointIn(p, capacity): at most 3 bytes back from the
\* last one until the byte is other than 10xxxxxx
RECURSIVE walkBack(_, _, _, _)
walkBack(mem, p, offset, n) ==
    IF n > 0 /\ mem[p + offset] \div 64 = 2
    THEN walkBack(mem, p, offset - 1, n - 1)
    ELSE offset

\* offsetOfLastCodepointIn walking back without the limit of 3 bytes
offsetOfLastCodepointInUnlimited(mem, p, capacity) ==
    IF p = nullptr \/ capacity = 0 THEN 0
    ELSE walkBack(mem, p, capacity - 1, capacity - 1)

offsetOfLastCodepointIn(mem, p, capacity) ==
    IF p = nullptr \/ capacity = 0 THEN 0
    ELSE walkBack(mem, p, capacity - 1, IF capacity - 1 < 3 THEN capacity - 1 ELSE 3)

\* Value::get(const std::uint8_t *&bytes, std::size_t &stringSize)
getBytes(mem, val, prior) ==
    LET dflt(r) == [result |-> r, bytes |-> nullptr, stringSize |-> 0]
    IN  IF ~val.isComplete THEN dflt("INCOMPLETE")
        ELSE LET first == mem[val.buffer]
                 sizeOfFirstToken == sizeOfTokenFromFirstByte(first)
             IN  IF first = NONE THEN dflt("NO_OBJECT")
                 ELSE IF first < 64 \/ first >= 96 THEN dflt("INCOMPATIBLE")
                 ELSE IF val.size < sizeOfFirstToken THEN dflt("INCOMPLETE")
                 ELSE [result |-> "OK", bytes |-> val.buffer + sizeOfFirstToken,
                       stringSize |-> val.size - sizeOfFirstToken]

\* get(String &, maxSize) that also rejects a string of exactly maxSize bytes
getStringOffByOne(mem, val, maxSize, prior) ==
    LET dflt(r) == [result |-> r, value |-> EmptyString]
    IN  IF ~val.isComplete THEN dflt("INCOMPLETE")
        ELSE LET first == mem[val.buffer]
                 sizeOfFirstToken == sizeOfTokenFromFirstByte(first)
                 stringSize == val.size - sizeOfFirstToken
             IN  IF first = NONE THEN dflt("NO_OBJECT")
                 ELSE IF first < 96 \/ first >= 128 THEN dflt("INCOMPATIBLE")
                 ELSE IF val.size < sizeOfFirstToken THEN dflt("INCOMPLETE")
                 ELSE IF stringSize >= maxSize THEN dflt("RANGE")
                 ELSE [result |-> "OK",
                       value |-> String(val.buffer + sizeOfFirstToken, stringSize)]

\* Value::get(String &value, std::size_t maxSize)
getString(mem, val, maxSize, prior) ==
    LET dflt(r) == [result |-> r, value |-> EmptyString]
    IN  IF ~val.isComplete THEN dflt("INCOMPLETE")
        ELSE LET first == mem[val.buffer]
                 sizeOfFirstToken == sizeOfTokenFromFirstByte(first)
                 stringSize == val.size - sizeOfFirstToken
             IN  IF first = NONE THEN dflt("NO_OBJECT")
                 ELSE IF first < 96 \/ first >= 128 THEN dflt("INCOMPATIBLE")
                 ELSE IF val.size < sizeOfFirstToken THEN dflt("INCOMPLETE")
                 ELSE IF stringSize > maxSize THEN dflt("RANGE")
                 ELSE [result |-> "OK",
                       value |-> String(val.buffer + sizeOfFirstToken, stringSize)]

\* The loop of Value::compareTo: from index i down to index 2
RECURSIVE compareBytesDown(_, _, _, _)
compareBytesDown(mem, a, b, i) ==
    IF i > 1
    THEN IF mem[a.buffer + i] < mem[b.buffer + i] THEN -1
         ELSE IF mem[a.buffer + i] > mem[b.buffer + i] THEN 1
         ELSE compareBytesDown(mem, a, b, i - 1)
    ELSE 0

\* Value::compareTo(other), a being this and b being other
compareTo(mem, a, b) ==
    LET n == a.size
    IN  IF n = 0 \/ b.size = 0
        THEN (IF n > 0 THEN 1 ELSE 0) - (IF b.size > 0 THEN 1 ELSE 0)
        ELSE IF mem[a.buffer] < mem[b.buffer] THEN -1
        ELSE IF mem[a.buffer] > mem[b.buffer] THEN 1
        ELSE IF n < b.size THEN -1
        ELSE IF n > b.size THEN 1
        ELSE LET c == compareBytesDown(mem, a, b, n - 1)
             IN  IF c # 0 THEN c
                 ELSE IF a.isComplete = b.isComplete THEN 0
                 ELSE IF a.isComplete THEN 1 ELSE -1

(***************************************************************************)
(* ResultCode and ResultCodeSet.  Both are numbers of the underlying type,  *)
(* std::uint_fast8_t, which has 8 bits in the build that is modelled.       *)
(***************************************************************************)
\* the enumerators of ResultCode
ResultCode ==
    [OK |-> 0, APPROX_IMPRECISE |-> 1, APPROX_EXTREME |-> 2, RANGE |-> 4,
     NO_OBJECT |-> 8, INCOMPATIBLE |-> 16, UNSUPPORTED |-> 32,
     ILLFORMED |-> 64, INCOMPLETE |-> 128]

\* ResultCodeSet::NONE and ResultCodeSet::ALL
ResultCodeSetNONE == 0
ResultCodeSetALL == 255

\* operator-=(ResultCodeSet &left, ResultCode right): left & ~right
ResultCodeSetMinus(left, right) == BitAnd(left, 255 - right)

\* leastSevereIn that returns the member with the highest value
leastSevereInHighest(resultCodes) ==
    IF resultCodes = 0 THEN 0
    ELSE CHOOSE r \in {1, 2, 4, 8, 16, 32, 64, 128} :
             /\ BitAnd(resultCodes, r) = r
             /\ resultCodes < 2 * r

\* leastSevereIn(resultCodes): resultCodes & -resultCodes; the bits of
\* -resultCodes that resultCodes can keep are those of 256 - resultCodes
leastSevereIn(resultCodes) ==
    BitAnd(resultCodes, (256 - resultCodes) % 256)

(***************************************************************************)
(* SizeOf.  The argument of SizeOf::integer is a Nat for the unsigned      *)
(* overloads and [neg, mag] for the signed ones.                           *)
(***************************************************************************)
\* SizeOf::integer(unsigned long long int value)
integerUnsigned(value) ==
    IF NatLt(value, <<24>>) THEN 1
    ELSE IF NatLt(value, NatAdd(<<24>>, <<0, 1>>)) THEN 2
    ELSE IF NatLt(value, NatAdd(<<24>>, <<0, 1, 1>>)) THEN 3
    ELSE IF NatLt(value, NatAdd(<<24>>, <<0, 1, 1, 1>>)) THEN 4
    ELSE IF NatLt(value, NatAdd(<<24>>, <<0, 1, 1, 1, 1>>)) THEN 5
    ELSE IF NatLt(value, NatAdd(<<24>>, <<0, 1, 1, 1, 1, 1>>)) THEN 6
    ELSE IF NatLt(value, NatAdd(<<24>>, <<0, 1, 1, 1, 1, 1, 1>>)) THEN 7
    ELSE IF NatLt(value, NatAdd(<<24>>, <<0, 1, 1, 1, 1, 1, 1, 1>>)) THEN 8
    ELSE 9

\* sizeof(unsigned long int) of the builds: 4 where long has 32 bits (the
\* builds without fast 64 bit arithmetic, and LLP64), 8 for LP64
UnsignedLongSizes == {4, 8}

\* the two's complement representation in w bytes of the integer [neg, mag]
TwosComplement(v, w) ==
    IF v.neg THEN Wrap(NatSub(Rep(0, w) \o <<1>>, v.mag), w) ELSE Wrap(v.mag, w)

\* -x for an unsigned long long int x
NegateUnsigned64(x) ==
    IF x = <<>> THEN <<>> ELSE NatSub(Rep(0, 8) \o <<1>>, x)

\* SizeOf::integer(signed long long int value) in a build with
\* sizeof(unsigned long int) = longSize
integerSigned(longSize, value) ==
    LET asUnsignedLong == TwosComplement(value, longSize)
    IN  integerUnsigned(IF value.neg
                        THEN NegateUnsigned64(Wrap(NatAdd(<<1>>, asUnsignedLong), 8))
                        ELSE asUnsignedLong)

(***************************************************************************)
(* ValueSequence::Iterator                                                 *)
(***************************************************************************)
\* Iterator::Iterator(buffer, capacity) that forgets the size of the first value
IteratorInitKeepsCapacity(mem, p, capacity) ==
    LET f == Value(mem, p, capacity)
    IN  [front |-> f,
         remainingSize |-> IF f.buffer # nullptr THEN capacity ELSE 0]

\* Iterator::Iterator(buffer, capacity) that takes the capacity as what
\* remains even when the front is empty
IteratorInitNullKeepsCapacity(mem, p, capacity) ==
    LET f == Value(mem, p, capacity)
    IN  [front |-> f, remainingSize |-> capacity - f.size]

\* Iterator::Iterator(buffer, capacity)
IteratorInit(mem, p, capacity) ==
    LET f == Value(mem, p, capacity)
    IN  [front |-> f,
         remainingSize |-> IF f.buffer # nullptr THEN capacity - f.size ELSE 0]

isAtEnd == front.buffer = nullptr

\* Iterator::Iterator()
IteratorDefault == [front |-> EmptyValue, remainingSize |-> 0]

\* ValueSequence::end()
ValueSequenceEnd == IteratorDefault

\* Iterator::operator==(other), the negation of operator!=
IteratorEquals(a, b) == ~(a.front.buffer # b.front.buffer)

\* the buffers iterated over: every byte string over SeqBytes up to MaxLen
SeqBytes == {0, 24, 25, 65, 88, 192, 208, 224, 255}

RECURSIVE SeqsUpTo(_, _)
SeqsUpTo(S, n) ==
    IF n = 0 THEN {<<>>}
    ELSE LET shorter == SeqsUpTo(S, n - 1)
         IN  shorter \cup {Append(s, b) : s \in {t \in shorter : Len(t) = n - 1}, b \in S}

\* longer buffers: those of the repository's tests of the iterator, and
\* values of several bytes, complete, truncated and with a length that is
\* too large
TestBuffers ==
    { <<255, 24, 0, 160>>,
      <<24, 0, 160, 31, 0>>,
      <<31, 0>>,
      <<224, 224, 255>>,
      <<255, 25, 1, 2, 65, 7, 0>>,
      <<192, 3, 1, 2, 3, 4, 255>>,
      <<88, 0, 255>>,
      <<88, 0>> \o Rep(0, 24) \o <<255>>,
      <<95, 255, 255, 255, 255, 255, 255, 255, 255, 0>>,
      <<199, 232, 254, 254, 254, 254, 254, 254, 254, 0>>,
      <<199, 246, 254, 254, 254, 254, 254, 254, 254, 0>>,
      <<199, 247, 254, 254, 254, 254, 254, 254, 254, 0>>,
      <<199, 255, 255, 255, 255, 255, 255, 255, 255, 0>>,
      <<215, 0, 0, 0, 0, 0, 0, 0, 0, 64, 0>>,
      <<215, 0, 0, 0, 0, 0, 0, 0, 0, 24, 0>>,
      <<224, 64, 224>>,
      <<209, 255, 0, 56, 0>>,
      <<209, 255, 0, 255>>,
      <<239, 255>> }

SeqBuffers == SeqsUpTo(SeqBytes, MaxLen) \cup TestBuffers

NoOut == [op |-> "none"]
NoPrev == [buffer |-> nullptr, size |-> 0, isComplete |-> FALSE, remainingSize |-> 0]

Init ==
    /\ buffer \in SeqBuffers
    /\ bufferPtr \in {nullptr, 1}
    /\ LET it == IteratorInit(buffer, bufferPtr, Len(buffer))
       IN  /\ front = it.front
           /\ remainingSize = it.remainingSize
           /\ sumSizes = it.front.size
    /\ calls = 0
    /\ prev = NoPrev
    /\ out = NoOut

\* Iterator::operator++() with bytes left after front_
Advance ==
    /\ remainingSize # 0
    /\ LET f == Value(buffer, front.buffer + front.size, remainingSize)
       IN  /\ front' = f
           /\ remainingSize' = remainingSize - f.size
           /\ sumSizes' = sumSizes + f.size
    /\ calls' = calls + 1
    /\ prev' = [buffer |-> front.buffer, size |-> front.size,
                isComplete |-> front.isComplete, remainingSize |-> remainingSize]
    /\ UNCHANGED <<buffer, bufferPtr, out>>

\* Iterator::operator++() with nothing left: the next is end()
AdvanceToEnd ==
    /\ remainingSize = 0
    /\ calls < Len(buffer) + MaxEndCalls
    /\ front' = EmptyValue
    /\ calls' = calls + 1
    /\ prev' = [buffer |-> front.buffer, size |-> front.size,
                isComplete |-> front.isComplete, remainingSize |-> remainingSize]
    /\ UNCHANGED <<buffer, bufferPtr, remainingSize, sumSizes, out>>

Next == Advance \/ AdvanceToEnd

Spec == Init /\ [][Next]_vars

(***************************************************************************)
(* Construction of a single Value and Encoding::sizeOfValueIn, called with *)
(* any capacity up to the length of the buffer (specification SpecValue)   *)
(***************************************************************************)
ValueBuffers == SeqsUpTo(SeqBytes, MaxLen - 1) \cup TestBuffers

InitValue ==
    /\ buffer \in ValueBuffers
    /\ bufferPtr = nullptr
    /\ front = EmptyValue
    /\ remainingSize = 0
    /\ calls = 0
    /\ sumSizes = 0
    /\ prev = NoPrev
    /\ out = NoOut

\* front = Value(p, capacity)
ConstructValue ==
    \E p \in {nullptr, 1}, capacity \in 0..Len(buffer) :
        /\ front' = Value(buffer, p, capacity)
        /\ bufferPtr' = p
        /\ out' = [op |-> "Value", p |-> p, capacity |-> capacity]
        /\ UNCHANGED <<buffer, remainingSize, calls, sumSizes, prev>>

\* Encoding::sizeOfValueIn(buffer, capacity)
CallSizeOfValueIn ==
    \E capacity \in 0..Len(buffer) :
        /\ out' = [op |-> "sizeOfValueIn", p |-> 1, capacity |-> capacity,
                   result |-> sizeOfValueIn(buffer, 1, capacity),
                   reads |-> sizeOfValueInReads(buffer, 1, capacity)]
        /\ UNCHANGED <<buffer, bufferPtr, front, remainingSize, calls, sumSizes, prev>>

NextValue == ConstructValue \/ CallSizeOfValueIn

SpecValue == InitValue /\ [][NextValue]_vars

(***************************************************************************)
(* Specification SpecGet: a Value is constructed over a buffer that starts *)
(* with a well-formed, ill-formed or truncated value, and its getters are  *)
(* called in any order.  out records the last call: the getter, its        *)
(* inputs, the result code and what the output arguments hold.             *)
(***************************************************************************)
\* Payloads of n bytes: a lowest byte, equal middle bytes and a highest byte
Pat(n, Lo, Mid, Hi) ==
    IF n = 0 THEN {<<>>}
    ELSE IF n = 1 THEN {<<x>> : x \in Lo}
    ELSE {<<l>> \o Rep(m, n - 2) \o <<h>> : l \in Lo, m \in Mid, h \in Hi}

\* IntegerValues around the limits of the 8, 16, 32 and 64 bit types
IntegerValues ==
    UNION {{<<h>> \o pl : pl \in Pat(sizeOfTokenFromFirstByte(h) - 1,
                                     {0, 103, 104, 231, 232, 255},
                                     {0, 254, 255},
                                     {0, 126, 127, 254, 255})} : h \in 0..63}

\* The second token of a DecimalRationalValue: mantissas around the limits of
\* std::int32_t, and bytes that do not start an IntegerToken
MantissaTokens ==
    {<<>>, <<0>>, <<1>>, <<23>>, <<24>>, <<32>>, <<63>>, <<64>>, <<65>>, <<255>>,
     <<27, 231, 254, 254, 126>>, <<27, 232, 254, 254, 126>>,
     <<59, 231, 254, 254, 126>>, <<59, 232, 254, 254, 126>>,
     <<31>> \o Rep(255, 8), <<63>> \o Rep(255, 8)}

\* The exponent payloads after the head h of a PowerOfTenToken
ExponentPayloads(h) ==
    LET n == (h % 8) + 1
    IN  IF h >= 224 THEN {<<>>}
        ELSE IF n <= 4 THEN Pat(n, {0, 246, 247, 248, 255}, {0, 254, 255}, {0, 126, 255})
        ELSE {Rep(0, n), Rep(255, n)}

DecimalRationalValues ==
    UNION {{<<h>> \o e \o m : e \in ExponentPayloads(h), m \in MantissaTokens}
           : h \in 208..239}

BinaryRationalValues ==
    UNION {{<<h>> \o pl : pl \in Pat((h % 8) + 1, {0, 1, 63, 128, 255}, {0, 255},
                                     {0, 63, 71, 127, 128, 255})} : h \in 200..207}

\* Bound on the length of the strings enumerated with an inline length
MaxStrLen == 3

StringBytes == {32, 128, 194}

\* ByteStringValues and Utf8StringValues: all short ones over StringBytes, a
\* 10 byte UTF-8 string of four code points, and 24 bytes with a length token
StringValues ==
    UNION {{<<h + m>> \o c : c \in [1..m -> StringBytes]}
           : h \in {64, 96}, m \in 0..MaxStrLen}
    \cup {<<h + 10, 32, 194, 128, 240, 144, 128, 128, 237, 159, 191>> : h \in {64, 96}}
    \cup {<<h + 24, 0>> \o Rep(32, 24) : h \in {64, 96}}

\* Bound on the number of bytes missing at the end of a truncated value
MaxTrunc == 1

Truncated(S) ==
    {SubSeq(b, 1, Len(b) - t) : b \in S, t \in 0..MaxTrunc}

\* BinaryRationalValues with k = 7 and the maximum exponent: the patterns of
\* the infinities and of NaNs, and those of the tests
MaxExponentDoubles ==
    {<<207>> \o lo \o <<m, t>> : lo \in {Rep(0, 6), <<1>> \o Rep(0, 5),
                                          Rep(0, 4) \o <<255, 255>>},
                                 m \in {240, 248, 255}, t \in {127, 255}}

\* BinaryRationalValues around the limits of binary32: those of the tests
\* (the smallest denormalized number, the largest finite number, the
\* smallest number that is too large), and numbers in the denormalized
\* range with k = 7 and k = 4, with and without bits that binary32 lacks
Binary32Limits ==
    { <<207, 0, 0, 0, 0, 0, 0, 160, 54>>,
      <<207, 0, 0, 0, 0, 0, 0, 144, 182>>,
      <<207, 0, 0, 0, 0, 0, 0, 161, 54>>,
      <<207, 0, 0, 0, 224, 255, 255, 239, 71>>,
      <<207, 1, 0, 0, 224, 255, 255, 239, 71>>,
      <<207, 0, 0, 0, 0, 0, 0, 0, 72>>,
      <<207, 0, 0, 0, 0, 0, 0, 0, 56>>,
      <<207, 0, 0, 0, 0, 0, 0, 240, 55>>,
      <<207, 0, 0, 0, 0, 0, 0, 248, 183>>,
      <<207, 0, 0, 0, 0, 0, 16, 80, 55>>,
      <<207, 0, 0, 0, 0, 0, 8, 80, 55>>,
      <<207, 0, 0, 0, 32, 0, 16, 80, 183>>,
      <<207, 0, 0, 0, 16, 0, 16, 80, 55>>,
      <<204, 0, 0, 0, 0, 28>>,
      <<204, 1, 0, 0, 0, 28>>,
      <<204, 0, 0, 64, 0, 156>>,
      <<204, 0, 0, 0, 0, 32>>,
      <<204, 0, 0, 0, 192, 95>>,
      <<204, 0, 0, 0, 0, 96>> }

GetBuffers ==
    {<<b>> : b \in 0..255}
    \cup MaxExponentDoubles
    \cup Binary32Limits
    \cup Truncated(IntegerValues \cup BinaryRationalValues \cup StringValues)
    \cup DecimalRationalValues

\* What output arguments hold before a call
PriorFloat == {F32(FALSE, 129, 3 * 2 ^ 21), NaN32}
PriorDouble == {F64(FALSE, 1025, 3 * 2 ^ 21, 0), NaN64}
PriorDecimal == {[mant |-> Pos(<<7>>), exp10 |-> Pos(<<7>>)]}
PriorBytes == {[bytes |-> 1, stringSize |-> 7]}
PriorString == {String(1, 7), EmptyString}

\* The values of maxSize tried
MaxSizes == 0..(MaxStrLen + 1) \cup {9, 10, 23, 24}

InitGet ==
    /\ buffer \in GetBuffers
    /\ bufferPtr = IF buffer = <<>> THEN nullptr ELSE 1
    /\ front = Value(buffer, bufferPtr, Len(buffer))
    /\ remainingSize = 0
    /\ calls = 0
    /\ sumSizes = 0
    /\ prev = NoPrev
    /\ out = NoOut

GetInteger ==
    /\ \E signed \in BOOLEAN, w \in {1, 2, 4, 8} :
          LET r == getIntegerValue(signed, w, buffer, front)
          IN  out' = [op |-> "getInteger", signed |-> signed, w |-> w,
                      result |-> r.result, value |-> r.value]
    /\ UNCHANGED <<buffer, bufferPtr, front, remainingSize, calls, sumSizes, prev>>

GetFloat ==
    /\ \E prior \in PriorFloat :
          LET r == getFloat(buffer, front, prior)
          IN  out' = [op |-> "getFloat", result |-> r.result, value |-> r.value]
    /\ UNCHANGED <<buffer, bufferPtr, front, remainingSize, calls, sumSizes, prev>>

GetDouble ==
    /\ \E prior \in PriorDouble :
          LET r == getDouble(buffer, front, prior)
          IN  out' = [op |-> "getDouble", result |-> r.result, value |-> r.value]
    /\ UNCHANGED <<buffer, bufferPtr, front, remainingSize, calls, sumSizes, prev>>

GetDecimal ==
    /\ \E prior \in PriorDecimal, overflow \in SignedOverflowOutcomes :
          LET r == getDecimal(buffer, front, prior, overflow)
          IN  out' = [op |-> IF r.result = "TRAPPED" THEN "getDecimalTrapped"
                             ELSE "getDecimal",
                      result |-> r.result, mant |-> r.mant, exp10 |-> r.exp10]
    /\ UNCHANGED <<buffer, bufferPtr, front, remainingSize, calls, sumSizes, prev>>

GetBytes ==
    /\ \E prior \in PriorBytes :
          LET r == getBytes(buffer, front, prior)
          IN  out' = [op |-> "getBytes", result |-> r.result,
                      bytes |-> r.bytes, stringSize |-> r.stringSize]
    /\ UNCHANGED <<buffer, bufferPtr, front, remainingSize, calls, sumSizes, prev>>

GetString ==
    /\ \E maxSize \in MaxSizes, prior \in PriorString :
          LET r == getString(buffer, front, maxSize, prior)
          IN  out' = [op |-> "getString", maxSize |-> maxSize,
                      result |-> r.result, value |-> r.value]
    /\ UNCHANGED <<buffer, bufferPtr, front, remainingSize, calls, sumSizes, prev>>

\* isNone(), isNumberlike(), isNumber(), isString() and isContainer() are
\* called one after the other
IsKind ==
    /\ out' = [op |-> "isKind",
               isNone |-> isNone(buffer, front),
               isNumberlike |-> isNumberlike(buffer, front),
               isNumber |-> isNumber(buffer, front),
               isString |-> isString(buffer, front),
               isContainer |-> isContainer(buffer, front)]
    /\ UNCHANGED <<buffer, bufferPtr, front, remainingSize, calls, sumSizes, prev>>

NextGet ==
    \/ GetInteger \/ GetFloat \/ GetDouble \/ GetDecimal \/ GetBytes \/ GetString
    \/ IsKind

SpecGet == InitGet /\ [][NextGet]_vars

(***************************************************************************)
(* Specification SpecCompare: three Values are constructed anywhere in a   *)
(* memory and compared with each other.                                    *)
(***************************************************************************)
\* Bound on the length of the memory the compared Values lie in
MaxCmpLen == 4

CmpBytes == {0, 1, 24, 56}

CompareBuffers == SeqsUpTo(CmpBytes, MaxCmpLen) \ {<<>>}

\* The Values that can be constructed over parts of the memory
ValuesIn(mem) ==
    UNION {{Value(mem, p, capacity) : capacity \in 0..(Len(mem) - p + 1)}
           : p \in 1..Len(mem)}

\* Bound on the number of comparisons in one behaviour
MaxCompareCalls == 1

InitCompare ==
    /\ buffer \in CompareBuffers
    /\ bufferPtr = 1
    /\ front = EmptyValue
    /\ remainingSize = 0
    /\ calls = 0
    /\ sumSizes = 0
    /\ prev = NoPrev
    /\ out = NoOut

CompareTo ==
    /\ calls < MaxCompareCalls
    /\ calls' = calls + 1
    /\ \E a \in ValuesIn(buffer), b \in ValuesIn(buffer), c \in ValuesIn(buffer) :
          out' = [op |-> "compareTo", a |-> a, b |-> b, c |-> c,
                  ab |-> compareTo(buffer, a, b), ba |-> compareTo(buffer, b, a),
                  bc |-> compareTo(buffer, b, c), ac |-> compareTo(buffer, a, c)]
    /\ UNCHANGED <<buffer, bufferPtr, front, remainingSize, sumSizes, prev>>

NextCompare == CompareTo

SpecCompare == InitCompare /\ [][NextCompare]_vars

(***************************************************************************)
(* Specification SpecNatural: the data of a NaturalToken is decoded from   *)
(* the first n bytes of a memory, or the number with the memory's bytes as *)
(* little-endian digits is encoded.                                        *)
(***************************************************************************)
\* Bound on the length of the memories with freely chosen bytes
MaxNatLen == 4

NaturalBytes == {0, 1, 254, 255}

\* sizeof(T) of the target types
NaturalWidths == {2, 4, 8}

\* longer memories, up to one byte more than the widest target type
NaturalBuffers ==
    SeqsUpTo(NaturalBytes, MaxNatLen)
        \cup UNION {Pat(n, {0, 254, 255}, {0, 254, 255}, {0, 1, 254, 255})
                    : n \in 5..9}

\* offsets 0, 1, 23 and 0xFEFEFEFE
NaturalOffsets == {<<>>, <<1>>, <<23>>, <<254, 254, 254, 254>>}

InitNatural ==
    /\ buffer \in NaturalBuffers
    /\ bufferPtr = 1
    /\ front = EmptyValue
    /\ remainingSize = 0
    /\ calls = 0
    /\ sumSizes = 0
    /\ prev = NoPrev
    /\ out = NoOut

DecodeNaturalTokenData ==
    /\ out = NoOut
    /\ \E w \in NaturalWidths, n \in 0..Len(buffer), offset \in NaturalOffsets :
          LET r == IF w = 2 THEN decodeNaturalTokenData16(buffer, 1, n, offset)
                   ELSE decodeNaturalTokenData(w, buffer, 1, n, offset)
          IN  out' = [op |-> "decodeNaturalTokenData", w |-> w, n |-> n,
                      offset |-> offset, ok |-> r.ok, value |-> r.value]
    /\ UNCHANGED <<buffer, bufferPtr, front, remainingSize, calls, sumSizes, prev>>

EncodeNaturalTokenData ==
    /\ out = NoOut
    /\ \E w \in NaturalWidths, capacity \in 0..9 :
          /\ Len(Norm(buffer)) <= w
          /\ LET r == encodeNaturalTokenData(Norm(buffer), capacity)
             IN  out' = [op |-> "encodeNaturalTokenData", w |-> w,
                         value |-> Norm(buffer), capacity |-> capacity,
                         n |-> r.n, bytes |-> r.bytes]
    /\ UNCHANGED <<buffer, bufferPtr, front, remainingSize, calls, sumSizes, prev>>

NextNatural == DecodeNaturalTokenData \/ EncodeNaturalTokenData

SpecNatural == InitNatural /\ [][NextNatural]_vars

(***************************************************************************)
(* Specification SpecString: the first code point and the offset of the    *)
(* last code point are taken from the first capacity bytes of a memory.    *)
(***************************************************************************)
\* first bytes around the limits of the UTF-8 forms
Utf8Leads == {0, 127, 128, 191, 192, 194, 223, 224, 237, 238, 239, 240, 244,
              245, 247, 248, 255}

\* following bytes around the limits of the second byte, and two bytes
\* other than 10xxxxxx
Utf8Tails == {0, 128, 143, 144, 159, 160, 191, 255}

\* a first byte and up to 3 following bytes
CodepointBuffers ==
    {<<l>> \o t : l \in Utf8Leads, t \in SeqsUpTo(Utf8Tails, 3)}

\* Bound on the length of the byte slices the last code point is looked
\* for in
MaxSliceLen == 6

SliceBytes == {127, 191, 244}

StringBuffers == CodepointBuffers \cup SeqsUpTo(SliceBytes, MaxSliceLen)

InitString ==
    /\ buffer \in StringBuffers
    /\ bufferPtr = 1
    /\ front = EmptyValue
    /\ remainingSize = 0
    /\ calls = 0
    /\ sumSizes = 0
    /\ prev = NoPrev
    /\ out = NoOut

\* the pointers and capacities of a call: nullptr with any capacity, or
\* the memory with a capacity inside it
StringCalls(mem) ==
    {<<nullptr, c>> : c \in {0, 1}}
        \cup {<<1, c>> : c \in 0..Len(mem)}

FirstCodepointIn ==
    /\ out = NoOut
    /\ \E a \in StringCalls(buffer) :
          LET r == firstCodepointIn(buffer, a[1], a[2])
          IN  out' = [op |-> "firstCodepointIn", p |-> a[1], capacity |-> a[2],
                      c |-> r.c, size |-> r.size, reads |-> r.reads]
    /\ UNCHANGED <<buffer, bufferPtr, front, remainingSize, calls, sumSizes, prev>>

OffsetOfLastCodepointIn ==
    /\ out = NoOut
    /\ \E a \in StringCalls(buffer) :
          out' = [op |-> "offsetOfLastCodepointIn", p |-> a[1],
                  capacity |-> a[2],
                  offset |-> offsetOfLastCodepointIn(buffer, a[1], a[2])]
    /\ UNCHANGED <<buffer, bufferPtr, front, remainingSize, calls, sumSizes, prev>>

NextString == FirstCodepointIn \/ OffsetOfLastCodepointIn

SpecString == InitString /\ [][NextString]_vars

(***************************************************************************)
(* Specification SpecText: a String over a memory made of encoded code     *)
(* points and ill-formed pieces is read as UTF-8 or ASCII.                 *)
(***************************************************************************)
\* Bound on the number of pieces a memory is made of
MaxUnits == 3

\* U+0000, ' ', 'a', '~', U+007F, U+0080, U+07FF, U+D7FF, U+10FFFF; a
\* surrogate, an over-long form, a lone 10xxxxxx, a truncated form, 0xFF
TextUnits ==
    {<<0>>, <<32>>, <<97>>, <<126>>, <<127>>, <<194, 128>>, <<223, 191>>,
     <<237, 159, 191>>, <<244, 143, 191, 191>>,
     <<237, 160, 128>>, <<192, 128>>, <<128>>, <<244, 143, 191>>, <<255>>}

RECURSIVE TextsUpTo(_)
TextsUpTo(n) ==
    IF n = 0 THEN {<<>>}
    ELSE LET shorter == TextsUpTo(n - 1)
         IN  shorter \cup {t \o u : t \in shorter, u \in TextUnits}

TextBuffers == TextsUpTo(MaxUnits)

\* the Strings constructed over the memory: empty ones and the whole memory
StringsOver(mem) ==
    {String(p, size) : p \in {nullptr, 1}, size \in {0, Len(mem)}}

\* the ranges [minCodePoint, maxCodePoint] asked for
CodePointRanges ==
    {<<0, 1114111>>, <<0, 127>>, <<97, 55295>>, <<98, 55295>>, <<97, 55294>>,
     <<128, 2047>>, <<INVALID_CODEPOINT, 0>>, <<0, INVALID_CODEPOINT>>}

InitText ==
    /\ buffer \in TextBuffers
    /\ bufferPtr = 1
    /\ front = EmptyValue
    /\ remainingSize = 0
    /\ calls = 0
    /\ sumSizes = 0
    /\ prev = NoPrev
    /\ out = NoOut

GetUtf8 ==
    /\ out = NoOut
    /\ \E s \in StringsOver(buffer), range \in CodePointRanges :
          LET r == getUtf8(buffer, s, range[1], range[2])
          IN  out' = [op |-> "getUtf8", s |-> s, minCodePoint |-> range[1],
                      maxCodePoint |-> range[2], result |-> r.result,
                      buffer |-> r.buffer, size |-> r.size]
    /\ UNCHANGED <<buffer, bufferPtr, front, remainingSize, calls, sumSizes, prev>>

GetAscii ==
    /\ out = NoOut
    /\ \E s \in StringsOver(buffer), printableOnly \in BOOLEAN :
          LET r == getAscii(buffer, s, printableOnly)
          IN  out' = [op |-> "getAscii", s |-> s,
                      minCodePoint |-> IF printableOnly THEN 32 ELSE 0,
                      maxCodePoint |-> IF printableOnly THEN 126 ELSE 127,
                      result |-> r.result, buffer |-> r.buffer, size |-> r.size]
    /\ UNCHANGED <<buffer, bufferPtr, front, remainingSize, calls, sumSizes, prev>>

NextText == GetUtf8 \/ GetAscii

SpecText == InitText /\ [][NextText]_vars

(***************************************************************************)
(* Specification SpecCodes: the members of a ResultCodeSet are taken out   *)
(* one by one, 'r = leastSevereIn(results); results -= r', until the set   *)
(* is empty.  out holds the set at the start, what is left of it, the      *)
(* codes taken out so far and leastSevereIn of what is left.               *)
(***************************************************************************)
InitCodes ==
    /\ buffer = <<>>
    /\ bufferPtr = nullptr
    /\ front = EmptyValue
    /\ remainingSize = 0
    /\ calls = 0
    /\ sumSizes = 0
    /\ prev = NoPrev
    /\ \E S \in ResultCodeSetNONE..ResultCodeSetALL :
          out = [op |-> "leastSevereIn", start |-> S, results |-> S,
                 produced |-> <<>>, r |-> leastSevereIn(S)]

RemoveLeastSevere ==
    /\ out.results # ResultCodeSetNONE
    /\ LET results == ResultCodeSetMinus(out.results, out.r)
       IN  out' = [op |-> "leastSevereIn", start |-> out.start,
                   results |-> results,
                   produced |-> Append(out.produced, out.r),
                   r |-> leastSevereIn(results)]
    /\ calls' = calls + 1
    /\ UNCHANGED <<buffer, bufferPtr, front, remainingSize, sumSizes, prev>>

NextCodes == RemoveLeastSevere

\* the loop is sequential code: it takes its next step as long as one is
\* possible
SpecCodes == InitCodes /\ [][NextCodes]_vars /\ WF_vars(NextCodes)

(***************************************************************************)
(* Specification SpecSizes: the size of a token is taken from a first byte *)
(* and the size of an IntegerValue from a number; the memory holds the     *)
(* byte, or the little-endian digits of the magnitude of the number.       *)
(***************************************************************************)
\* magnitudes around the limits 24 + 256 + ... + 256^n, around 2^32, 2^63
\* and 2^64
IntegerMagnitudes ==
    {<<b>> : b \in 1..255} \cup {<<>>}
        \cup {<<l>> \o Rep(1, n) : l \in {22, 23, 24, 25}, n \in 1..7}
        \cup {Rep(255, 4), <<0, 0, 0, 0, 1>>, <<1, 0, 0, 0, 1>>,
              Rep(255, 7) \o <<127>>, Rep(0, 7) \o <<128>>,
              <<1>> \o Rep(0, 6) \o <<128>>, Rep(255, 8)}

InitSizes ==
    /\ buffer \in IntegerMagnitudes \cup {<<0>>}
    /\ bufferPtr = 1
    /\ front = EmptyValue
    /\ remainingSize = 0
    /\ calls = 0
    /\ sumSizes = 0
    /\ prev = NoPrev
    /\ out = NoOut

SizeOfTokenFromFirstByte ==
    /\ out = NoOut
    /\ Len(buffer) = 1
    /\ out' = [op |-> "sizeOfTokenFromFirstByte", b |-> buffer[1],
               result |-> sizeOfTokenFromFirstByte(buffer[1])]
    /\ UNCHANGED <<buffer, bufferPtr, front, remainingSize, calls, sumSizes, prev>>

SizeOfIntegerUnsigned ==
    /\ out = NoOut
    /\ buffer \in IntegerMagnitudes
    /\ out' = [op |-> "integerUnsigned", value |-> buffer,
               result |-> integerUnsigned(buffer)]
    /\ UNCHANGED <<buffer, bufferPtr, front, remainingSize, calls, sumSizes, prev>>

\* the argument is a signed long long int: at most 2^63 - 1, at least -2^63
SizeOfIntegerSigned ==
    /\ out = NoOut
    /\ buffer \in IntegerMagnitudes
    /\ \E neg \in BOOLEAN, longSize \in UnsignedLongSizes :
          /\ neg => buffer # <<>>
          /\ NatLe(buffer, IF neg THEN Rep(0, 7) \o <<128>>
                           ELSE Rep(255, 7) \o <<127>>)
          /\ out' = [op |-> "integerSigned", longSize |-> longSize,
                     value |-> [neg |-> neg, mag |-> buffer],
                     result |-> integerSigned(longSize,
                                              [neg |-> neg, mag |-> buffer])]
    /\ UNCHANGED <<buffer, bufferPtr, front, remainingSize, calls, sumSizes, prev>>

NextSizes ==
    SizeOfTokenFromFirstByte \/ SizeOfIntegerUnsigned \/ SizeOfIntegerSigned

SpecSizes == InitSizes /\ [][NextSizes]_vars

(***************************************************************************)
(* get(float &) and get(double &) of a Value whose buffer changes after    *)
(* the construction (specification SpecChange).  The memory holds the      *)
(* bytes given to the constructor and one byte after them that is not part *)
(* of the buffer; what that byte holds is not known to the program.        *)
(***************************************************************************)
MaxChanges == 2

\* what the byte after the buffer may hold
ForeignBytes == {0, 128, 255}

\* the buffers as they are at construction
OriginalBuffers ==
    { <<0>>, <<255>>, <<24, 0>>, <<65, 7>>, <<200, 64>>, <<201, 0, 60>>,
      <<200>>, <<202, 1>>, <<64>>, <<224, 255>> }

\* the bytes written into the buffer afterwards
ChangeBytes == {0, 64, 200, 201, 202, 207, 255}

InitChange ==
    /\ \E o \in OriginalBuffers, b \in ForeignBytes : buffer = Append(o, b)
    /\ bufferPtr = 1
    /\ front = Value(buffer, bufferPtr, Len(buffer) - 1)
    /\ remainingSize = 0
    /\ calls = 0
    /\ sumSizes = 0
    /\ prev = NoPrev
    /\ out = NoOut

\* a byte of the buffer is overwritten while the Value exists
ChangeBuffer ==
    /\ calls < MaxChanges
    /\ \E i \in 1..(Len(buffer) - 1), b \in ChangeBytes :
           buffer' = [j \in 1..Len(buffer) |-> IF j = i THEN b ELSE buffer[j]]
    /\ calls' = calls + 1
    /\ out' = NoOut
    /\ UNCHANGED <<bufferPtr, front, remainingSize, sumSizes, prev>>

GetFloatChanged ==
    /\ \E prior \in {NaN32, Zero32(FALSE)} :
           LET r == getFloat(buffer, front, prior)
           IN  out' = [op |-> "getFloatChanged", result |-> r.result,
                       reads |-> getFloatReads(buffer, front)]
    /\ UNCHANGED <<buffer, bufferPtr, front, remainingSize, calls, sumSizes, prev>>

GetDoubleChanged ==
    /\ \E prior \in {NaN64, Zero64(FALSE)} :
           LET r == getDouble(buffer, front, prior)
           IN  out' = [op |-> "getDoubleChanged", result |-> r.result,
                       reads |-> getDoubleReads(buffer, front)]
    /\ UNCHANGED <<buffer, bufferPtr, front, remainingSize, calls, sumSizes, prev>>

NextChange == ChangeBuffer \/ GetFloatChanged \/ GetDoubleChanged

SpecChange == InitChange /\ [][NextChange]_vars

(***************************************************************************)
(* Properties of the iteration (specification Spec)                        *)
(***************************************************************************)
\* C1: from Iterator(buffer, L), at most L calls of operator++ reach the end
\* (front.buffer() == nullptr), and every front that is not the end has
\* size() >= 1, whatever the bytes are.
IteratorTerminates ==
    /\ ~isAtEnd => (front.size >= 1 /\ calls < Len(buffer))
    /\ calls >= Len(buffer) => isAtEnd

\* the end is reached by the L-th call, over a buffer of several one-byte values
IteratorTerminatesWitness ==
    /\ isAtEnd
    /\ Len(buffer) >= 3
    /\ calls = Len(buffer)
    /\ prev.buffer = Len(buffer)
    /\ prev.size = 1

\* C2: in every non-end state offset + front.size() + remainingSize() is the
\* capacity, each operator++ places the new front at the previous front's
\* buffer() + size(), no front extends past the buffer, and at the end the
\* sizes of the fronts sum to the capacity.
ContiguousValues ==
    /\ ~isAtEnd => /\ (front.buffer - bufferPtr) + front.size + remainingSize = Len(buffer)
                   /\ (front.buffer - bufferPtr) + front.size <= Len(buffer)
    /\ (~isAtEnd /\ calls > 0) => /\ front.buffer = prev.buffer + prev.size
                                  /\ remainingSize = prev.remainingSize - front.size
    /\ (isAtEnd /\ bufferPtr # nullptr) => sumSizes = Len(buffer)

\* a third value that is not the first byte of the buffer and is followed by more
ContiguousValuesWitness ==
    /\ ~isAtEnd
    /\ calls = 2
    /\ front.size = 2
    /\ prev.size = 3
    /\ remainingSize > 0

\* C5: a non-empty incomplete front has remainingSize() == 0, so it is the
\* last value yielded and the next operator++ reaches the end.
IncompleteIsLast ==
    /\ (front.buffer # nullptr /\ ~front.isComplete) => remainingSize = 0
    /\ (calls > 0 /\ prev.buffer # nullptr /\ ~prev.isComplete) => isAtEnd

\* operator++ has moved from an incomplete value, found after complete ones, to the end
IncompleteIsLastWitness ==
    /\ isAtEnd
    /\ calls = 3
    /\ prev.buffer > 1
    /\ prev.size >= 2
    /\ ~prev.isComplete

(***************************************************************************)
(* Properties of Value construction and sizeOfValueIn (SpecValue)          *)
(***************************************************************************)
\* C3: Value(buffer, capacity) of a non-null buffer and capacity > 0 is
\* complete with size() = s = sizeOfValueIn(buffer, capacity) iff
\* 0 < s <= capacity and otherwise incomplete with size() = capacity; of a
\* null buffer or capacity 0 it is the empty value.  So buffer() is nullptr
\* iff size() is 0, a complete value has size() > 0, and size() <= capacity.
ValueConstruction ==
    out.op = "Value" =>
        LET s == sizeOfValueIn(buffer, out.p, out.capacity)
            fits == s # <<>> /\ NatLe(s, NatOfInt(out.capacity))
        IN  /\ IF out.p # nullptr /\ out.capacity > 0
               THEN /\ front.buffer = out.p
                    /\ front.isComplete <=> fits
                    /\ front.isComplete => NatOfInt(front.size) = s
                    /\ ~front.isComplete => front.size = out.capacity
               ELSE /\ front.buffer = nullptr
                    /\ front.size = 0
                    /\ ~front.isComplete
            /\ front.buffer = nullptr <=> front.size = 0
            /\ front.isComplete => front.size > 0
            /\ front.size <= out.capacity

\* a complete value of six bytes (0xC0 0x03 ...) in a buffer of seven
ValueConstructionWitness ==
    /\ out.op = "Value"
    /\ out.capacity = 7
    /\ front.isComplete
    /\ front.size = 6

\* the size the bytes of a string or container with a length token declare,
\* with no limit of width
DeclaredSize(mem, p) ==
    LET sizeOfFirst == sizeOfTokenFromFirstByte(mem[p])
        n == sizeOfFirst - 1
        u == Norm(SubSeq(mem, p + 1, p + n))
    IN  NatAdd(NatAdd(u, Rep(1, n)),
               NatOfInt(IF mem[p] < 192 THEN sizeOfFirst + 23 ELSE sizeOfFirst))

HasLengthToken(b) == (b >= 64 /\ b < 192 /\ (b % 32) >= 24) \/ (b >= 192 /\ b < 200)

\* C4: sizeOfValueIn(p, capacity) reads only p[i] with i < capacity; it
\* returns 0 exactly when capacity is 0, or a length token of a string or
\* container is not fully inside the buffer, or no byte follows the head
\* token of a DecimalRational inside the buffer, or the declared size does
\* not fit std::size_t; its result depends only on the bytes it read.
SizeOfValueInSafe ==
    out.op = "sizeOfValueIn" =>
        LET cap == out.capacity
            b == buffer[1]
            s1 == sizeOfTokenFromFirstByte(b)
            zero == \/ cap = 0
                    \/ HasLengthToken(b) /\ s1 > cap
                    \/ b >= 208 /\ b < 240 /\ s1 >= cap
                    \/ /\ HasLengthToken(b)
                       /\ s1 <= cap
                       /\ NatLt(MaxU(SizeOfSizeT), DeclaredSize(buffer, 1))
        IN  /\ out.reads \subseteq 0..(cap - 1)
            /\ out.result = <<>> <=> zero
            /\ out.result # <<>> => NatLe(<<1>>, out.result)
            /\ \A i \in 1..Len(buffer), x \in SeqBytes :
                   (i - 1) \notin out.reads =>
                       sizeOfValueIn([buffer EXCEPT ![i] = x], 1, cap) = out.result

\* a container whose eight-byte length token declares a size beyond std::size_t
SizeOfValueInSafeWitness ==
    /\ out.op = "sizeOfValueIn"
    /\ out.capacity >= 9
    /\ out.reads = 0..8
    /\ out.result = <<>>

(***************************************************************************)
(* Properties of the getters (specification SpecGet)                       *)
(***************************************************************************)
\* Order on the integers [neg, mag]
IntLe(a, b) ==
    IF a.neg /\ ~b.neg THEN TRUE
    ELSE IF ~a.neg /\ b.neg THEN FALSE
    ELSE IF a.neg THEN NatLe(b.mag, a.mag)
    ELSE NatLe(a.mag, b.mag)

\* The integer an IntegerToken at p denotes, with unbounded precision: the
\* magnitude token value u is the inline value or the little-endian payload
\* plus 0x01..01 plus 23; the token denotes u or, if negative, -(u + 1)
DenotedInteger(mem, p) ==
    LET first == mem[p]
        m == first % 32
        n == (first % 8) + 1
        u == IF m < 24 THEN NatOfInt(m)
             ELSE NatAdd(NatAdd(Norm([i \in 1..n |-> mem[p + i]]), Rep(1, n)), <<23>>)
    IN  IF first >= 32 THEN Neg(NatAdd(u, <<1>>)) ELSE Pos(u)

IsIntegerCall == out.op = "getInteger" /\ front.isComplete /\ buffer[1] < 64

\* C6: a getter of an integer type T on a complete IntegerValue denoting v
\* returns OK with v exactly when min(T) <= v <= max(T), APPROX_EXTREME with
\* max(T) when v > max(T) and APPROX_EXTREME with min(T) when v < min(T); a
\* negative value is -(u + 1), so 0x38 0x67 into int8 is OK with -128 and
\* 0x38 0x68 is APPROX_EXTREME with -128.
IntegerGetterContract ==
    IsIntegerCall =>
        LET v == DenotedInteger(buffer, 1)
            max == IF out.signed THEN Pos(Rep(255, out.w - 1) \o <<127>>)
                   ELSE Pos(Rep(255, out.w))
            min == IF out.signed THEN Neg(Rep(0, out.w - 1) \o <<128>>)
                   ELSE IntZero
        IN  /\ (out.result = "OK") <=> (IntLe(min, v) /\ IntLe(v, max))
            /\ out.result = "OK" => out.value = v
            /\ ~IntLe(v, max) => out.result = "APPROX_EXTREME" /\ out.value = max
            /\ ~IntLe(min, v) => out.result = "APPROX_EXTREME" /\ out.value = min
            /\ (out.signed /\ out.w = 1 /\ buffer = <<56, 103>>)
                  => out.result = "OK" /\ out.value = Neg(<<128>>)
            /\ (out.signed /\ out.w = 1 /\ buffer = <<56, 104>>)
                  => out.result = "APPROX_EXTREME" /\ out.value = Neg(<<128>>)

IntegerGetterContractWitness ==
    /\ IsIntegerCall
    /\ out.signed /\ out.w = 1
    /\ buffer = <<56, 103>>
    /\ out.result = "OK"
    /\ out.value = [neg |-> TRUE, mag |-> <<128>>]

IsNaN32(f) == f.exp = 255 /\ f.mant # 0
IsNaN64(f) == f.exp = 2047 /\ (f.hi # 0 \/ f.lo # 0)

\* The outputs of the recorded call hold the default of the target type
IsDefaultOut ==
    CASE out.op = "getInteger" -> out.value = IntZero
      [] out.op = "getFloat" -> IsNaN32(out.value)
      [] out.op = "getDouble" -> IsNaN64(out.value)
      [] out.op = "getDecimal" -> out.mant = IntZero /\ out.exp10 = IntZero
      [] out.op = "getBytes" -> out.bytes = nullptr /\ out.stringSize = 0
      [] out.op = "getString" -> out.value.buffer = nullptr /\ out.value.size = 0

IsGetterCall ==
    out.op \in {"getInteger", "getFloat", "getDouble", "getDecimal",
                "getBytes", "getString"}

\* C7 as stated: every getter call that returns any non-OK result code leaves
\* its outputs at the default of the target type.
NonOkLeavesDefault ==
    (IsGetterCall /\ out.result # "OK") => IsDefaultOut

\* C7 as amended: every getter call that returns a result code other than OK,
\* APPROX_IMPRECISE and APPROX_EXTREME leaves its outputs at the default of the
\* target type; the two APPROX codes deliver the approximation instead.
NonApproxLeavesDefault ==
    (IsGetterCall /\ out.result \notin {"OK", "APPROX_IMPRECISE", "APPROX_EXTREME"})
        => IsDefaultOut

NonApproxLeavesDefaultWitness ==
    /\ out.op = "getFloat"
    /\ out.result = "ILLFORMED"
    /\ IsNaN32(out.value)
    /\ buffer[1] = 207

ErrorCodes ==
    {"RANGE", "NO_OBJECT", "INCOMPATIBLE", "UNSUPPORTED", "ILLFORMED", "INCOMPLETE"}

\* C8: a getter call that returns RANGE, NO_OBJECT, INCOMPATIBLE, UNSUPPORTED,
\* ILLFORMED or INCOMPLETE ends with its outputs at the default of the target
\* type, and with the Value and the bytes of the buffer as they were before.
ErrorLeavesDefaultAndValue ==
    [][(out'.op \notin {"none", "isKind"} /\ out'.result \in ErrorCodes) =>
          /\ IsDefaultOut'
          /\ front' = front
          /\ buffer' = buffer
          /\ bufferPtr' = bufferPtr]_vars

ErrorLeavesDefaultAndValueWitness ==
    /\ out.op = "getDecimal"
    /\ out.result = "UNSUPPORTED"
    /\ out.mant = IntZero /\ out.exp10 = IntZero
    /\ front = Value(buffer, bufferPtr, Len(buffer))
    /\ front.isComplete

IsStringCall ==
    out.op = "getString" /\ front.isComplete /\ buffer[1] >= 96 /\ buffer[1] < 128

\* Where the payload of the string value at the start of the buffer begins,
\* and its length L
PayloadStart == 1 + sizeOfTokenFromFirstByte(buffer[1])
PayloadLength == front.size - sizeOfTokenFromFirstByte(buffer[1])

\* C9 as stated: with L <= maxSize the call returns OK with a view of the L
\* payload bytes; with L > maxSize it returns APPROX_EXTREME with a view of
\* the payload cut at the last code-point boundary within the first
\* maxSize + 1 payload bytes (the 10 byte example with maxSize 9: 7 bytes).
StringTruncatedToMaxSize ==
    IsStringCall =>
        /\ PayloadLength <= out.maxSize =>
              /\ out.result = "OK"
              /\ out.value = String(PayloadStart, PayloadLength)
        /\ PayloadLength > out.maxSize =>
              /\ out.result = "APPROX_EXTREME"
              /\ out.value = String(PayloadStart,
                                    offsetOfLastCodepointIn(buffer, PayloadStart,
                                                            out.maxSize + 1))

\* C9 as amended: with L <= maxSize the call returns OK with a view of exactly
\* the L payload bytes; with L > maxSize it returns RANGE with the empty view
\* String(), without truncating.
StringWithinMaxSize ==
    IsStringCall =>
        /\ PayloadLength <= out.maxSize =>
              /\ out.result = "OK"
              /\ out.value = String(PayloadStart, PayloadLength)
        /\ PayloadLength > out.maxSize =>
              /\ out.result = "RANGE"
              /\ out.value = EmptyString

StringWithinMaxSizeWitness ==
    /\ IsStringCall
    /\ buffer = <<106, 32, 194, 128, 240, 144, 128, 128, 237, 159, 191>>
    /\ out.maxSize = 9
    /\ out.result = "RANGE"
    /\ out.value = [buffer |-> nullptr, size |-> 0]

\* The exponent a PowerOfTenToken at the start of the buffer denotes, with
\* unbounded precision, and the size of that token
ExponentTokenSize == IF buffer[1] >= 224 THEN 1 ELSE 2 + (buffer[1] % 8)
DenotedExponent ==
    LET n == (buffer[1] % 8) + 1
        eAbs == IF buffer[1] >= 224 THEN NatOfInt(n)
                ELSE NatAdd(NatAdd(Norm([i \in 1..n |-> buffer[1 + i]]), Rep(1, n)),
                            <<8>>)
    IN  IF (buffer[1] \div 8) % 2 = 1 THEN Neg(eAbs) ELSE Pos(eAbs)

Int32Min == [neg |-> TRUE, mag |-> <<0, 0, 0, 128>>]
Int32Max == [neg |-> FALSE, mag |-> <<255, 255, 255, 127>>]
FitsInt32(v) == IntLe(Int32Min, v) /\ IntLe(v, Int32Max)

\* A getDecimal call on a complete DecimalRationalValue: a PowerOfTenToken
\* followed by an IntegerToken of a non-zero mantissa
IsDecimalCall ==
    /\ out.op = "getDecimal"
    /\ front.isComplete
    /\ buffer[1] >= 208 /\ buffer[1] < 240
    /\ front.size > ExponentTokenSize
    /\ buffer[1 + ExponentTokenSize] # 0
    /\ buffer[1 + ExponentTokenSize] < 64

\* C10: on a complete DecimalRationalValue whose exponent e fits int32 and
\* whose mantissa m does not, the call returns APPROX_IMPRECISE with mant
\* INT32_MAX (m too large) or INT32_MIN (m too small) and exp10 = e, for
\* positive and for negative exponents alike.
DecimalMantissaClamped ==
    (/\ IsDecimalCall
     /\ FitsInt32(DenotedExponent)
     /\ ~FitsInt32(DenotedInteger(buffer, 1 + ExponentTokenSize)))
        => /\ out.result = "APPROX_IMPRECISE"
           /\ out.mant = IF DenotedInteger(buffer, 1 + ExponentTokenSize).neg
                         THEN Int32Min ELSE Int32Max
           /\ out.exp10 = DenotedExponent

\* A get(mant, exp10) call, returned or not, on a complete DecimalRationalValue
\* with a non-zero IntegerToken mantissa
IsDecimalAttempt ==
    /\ out.op \in {"getDecimal", "getDecimalTrapped"}
    /\ front.isComplete
    /\ buffer[1] >= 208 /\ buffer[1] < 240
    /\ front.size > ExponentTokenSize
    /\ buffer[1 + ExponentTokenSize] # 0
    /\ buffer[1 + ExponentTokenSize] < 64

\* C11: on a complete DecimalRationalValue with a non-zero IntegerToken
\* mantissa and exponent e, the call returns exp10 = e for every e with
\* INT32_MIN <= e <= INT32_MAX, both endpoints included, and returns
\* UNSUPPORTED with mant = 0 and exp10 = 0 for every e outside that range,
\* exponent tokens of more than 4 payload bytes included.
DecimalExponentRange ==
    IsDecimalAttempt =>
        IF FitsInt32(DenotedExponent)
        THEN /\ out.op = "getDecimal"
             /\ out.result # "UNSUPPORTED"
             /\ out.exp10 = DenotedExponent
        ELSE /\ out.op = "getDecimal"
             /\ out.result = "UNSUPPORTED"
             /\ out.mant = IntZero
             /\ out.exp10 = IntZero

(***************************************************************************)
(* More properties of Encoding::sizeOfValueIn (specification SpecValue)    *)
(***************************************************************************)
IsSizeOfValueInCall == out.op = "sizeOfValueIn"

\* C12: for a first byte in 0xD0..0xEF with head token size s1 and
\* capacity > s1, sizeOfValueIn returns s1 if the byte at offset s1 is not the
\* first byte of an IntegerToken (it is >= 0x40), so that byte is left to
\* start the next value, and s1 + sizeOfTokenFromFirstByte(p[s1]) otherwise.
DecimalSecondToken ==
    (/\ IsSizeOfValueInCall
     /\ out.capacity >= 1
     /\ buffer[1] >= 208 /\ buffer[1] < 240
     /\ out.capacity > sizeOfTokenFromFirstByte(buffer[1]))
        => LET s1 == sizeOfTokenFromFirstByte(buffer[1])
               second == buffer[1 + s1]
           IN  out.result = NatOfInt(IF second >= 64 THEN s1
                                     ELSE s1 + sizeOfTokenFromFirstByte(second))

\* The size a length token of n payload bytes after the first byte denotes,
\* with unbounded precision: the token, the base, the payload read
\* little-endian and 0x01..01 of n bytes
DeclaredStringSize(n, base) ==
    NatAdd(NatAdd(Norm([i \in 1..n |-> buffer[1 + i]]), Rep(1, n)),
           NatOfInt(1 + n + base))

\* C13: for a string or container first byte b, sizeOfValueIn returns 1 + m
\* for an inline length m = b & 0x1F < 0x18 (b in 0x40..0xBF) whatever the
\* capacity >= 1; with a length token of n = (b & 7) + 1 payload bytes inside
\* the buffer it returns (1 + n) + 23 + N for b in 0x40..0xBF and (1 + n) + N
\* for b in 0xC0..0xC7, N being the payload read little-endian plus 0x01..01;
\* the result may exceed the capacity and is 0 if it does not fit std::size_t.
StringAndContainerSize ==
    (IsSizeOfValueInCall /\ out.capacity >= 1 /\ buffer[1] >= 64 /\ buffer[1] < 200)
        => LET b == buffer[1]
               m == b % 32
               n == (b % 8) + 1
               declared == DeclaredStringSize(n, IF b < 192 THEN 23 ELSE 0)
           IN  IF b < 192 /\ m < 24
               THEN out.result = NatOfInt(1 + m)
               ELSE (1 + n <= out.capacity)
                       => out.result = IF Len(declared) <= SizeOfSizeT
                                       THEN declared ELSE <<>>

StringAndContainerSizeWitness ==
    /\ IsSizeOfValueInCall
    /\ buffer = <<88, 0, 255>>
    /\ out.capacity = 3
    /\ out.result = <<26>>

(***************************************************************************)
(* Properties of Value::compareTo (specification SpecCompare)              *)
(***************************************************************************)
IsCompareCall == out.op = "compareTo"

\* Two Values have the same size, the same bytes at every index and the same
\* isComplete()
SameValue(a, b) ==
    /\ a.size = b.size
    /\ a.isComplete = b.isComplete
    /\ \A i \in 0..(a.size - 1) : buffer[a.buffer + i] = buffer[b.buffer + i]

\* C14: compareTo is a strict total order on all Values with Value() as the
\* least element: it returns 0 exactly for values of the same size, bytes and
\* isComplete(), compareTo(a, b) = -compareTo(b, a), the relation is
\* transitive, and of two values with the same bytes the incomplete one is
\* the smaller.
CompareToTotalOrder ==
    IsCompareCall =>
        /\ (out.ab = 0) <=> SameValue(out.a, out.b)
        /\ out.ab = -out.ba
        /\ (out.ab < 0 /\ out.bc < 0) => out.ac < 0
        /\ (out.ab = 0 /\ out.bc = 0) => out.ac = 0
        /\ (out.a = EmptyValue /\ out.b # EmptyValue) => out.ab < 0
        /\ (/\ out.a.size = out.b.size
            /\ \A i \in 0..(out.a.size - 1) :
                  buffer[out.a.buffer + i] = buffer[out.b.buffer + i]
            /\ ~out.a.isComplete /\ out.b.isComplete) => out.ab < 0

\* A complete, well-formed IntegerValue
IsIntegerValue(v) == v.isComplete /\ buffer[v.buffer] < 64

\* C15: for complete well-formed IntegerValue(x) and IntegerValue(y),
\* a.compareTo(b) returns -1 if and only if |x| < |y| and x * y >= 0.
CompareToIntegers ==
    (IsCompareCall /\ IsIntegerValue(out.a) /\ IsIntegerValue(out.b)) =>
        LET x == DenotedInteger(buffer, out.a.buffer)
            y == DenotedInteger(buffer, out.b.buffer)
        IN  (out.ab = -1) <=>
                (/\ NatLt(x.mag, y.mag)
                 /\ (x.neg = y.neg \/ x.mag = <<>> \/ y.mag = <<>>))

(***************************************************************************)
(* Properties of the NaturalToken data (specification SpecNatural)         *)
(***************************************************************************)
IsDecodeNaturalCall == out # NoOut /\ out.op = "decodeNaturalTokenData"

\* u: the little-endian integer of the first n bytes
PayloadOf(n) == Norm(SubSeq(buffer, 1, n))

\* d = (0x0101010101010101 mod 2^(8n)) + offset, without any width
ShiftOf(n, offset) == NatAdd(Rep(1, n), offset)

\* C16: for T in {uint32_t, uint64_t} and offset <= 0xFEFEFEFE,
\* decodeNaturalTokenData returns false with value 0 if n == 0 or
\* n > sizeof(T); otherwise true with value u + d if u <= MAX(T) - d and
\* false with value 0 if not, where d and u + d are the sums of unbounded
\* integers: d fits T, so nothing in the computation wraps.
DecodeNaturalWide ==
    (IsDecodeNaturalCall /\ out.w \in {4, 8}) =>
        LET u == PayloadOf(out.n)
            d == ShiftOf(out.n, out.offset)
        IN  IF out.n = 0 \/ out.n > out.w
            THEN ~out.ok /\ out.value = <<>>
            ELSE /\ NatLe(d, MaxU(out.w))
                 /\ IF NatLe(u, NatSub(MaxU(out.w), d))
                    THEN out.ok /\ out.value = NatAdd(u, d)
                    ELSE ~out.ok /\ out.value = <<>>

\* a uint32_t is decoded from 4 bytes with the largest offset, and the
\* largest d leaves exactly u = 0 in range
DecodeNaturalWideWitness ==
    /\ IsDecodeNaturalCall
    /\ out.w = 4 /\ out.n = 4 /\ out.offset = <<254, 254, 254, 254>>
    /\ out.ok /\ out.value = <<255, 255, 255, 255>>

DecodeNaturalNarrow ==
    (IsDecodeNaturalCall /\ out.w = 2) =>
        LET sum == NatAdd(PayloadOf(out.n), ShiftOf(out.n, out.offset))
        IN  IF out.n \in {1, 2} /\ NatLe(sum, MaxU(2))
            THEN out.ok /\ out.value = sum
            ELSE ~out.ok /\ out.value = <<>>

\* 4 bytes 0xFF with the largest offset, a sum above 2^32, have been
\* rejected for std::uint16_t
DecodeNaturalNarrowWitness ==
    /\ IsDecodeNaturalCall
    /\ out.w = 2 /\ out.n = 4 /\ out.offset = <<254, 254, 254, 254>>
    /\ SubSeq(buffer, 1, 4) = <<255, 255, 255, 255>>
    /\ ~out.ok /\ out.value = <<>>

(***************************************************************************)
(* Properties of the code points (specification SpecString)                *)
(***************************************************************************)
\* a code point in 0x0000..0xD7FF or 0xE000..0x10FFFF
IsValidCodepoint(c) == (c >= 0 /\ c <= 55295) \/ (c >= 57344 /\ c <= 1114111)

\* the UTF-8 encoding of a valid code point (Unicode 13, table 3-6)
Utf8(c) ==
    IF c < 128 THEN <<c>>
    ELSE IF c < 2048 THEN <<192 + (c \div 64), 128 + (c % 64)>>
    ELSE IF c < 65536
    THEN <<224 + (c \div 4096), 128 + ((c \div 64) % 64), 128 + (c % 64)>>
    ELSE <<240 + (c \div 262144), 128 + ((c \div 4096) % 64),
           128 + ((c \div 64) % 64), 128 + (c % 64)>>

\* the scalar value in the x bits of n bytes read as an n-byte UTF-8 form
Utf8Scalar(bytes) ==
    LET n == Len(bytes)
        x(i) == bytes[i] % 64
    IN  IF n = 1 THEN bytes[1] % 128
        ELSE IF n = 2 THEN (bytes[1] % 32) * 64 + x(2)
        ELSE IF n = 3 THEN ((bytes[1] % 16) * 64 + x(2)) * 64 + x(3)
        ELSE (((bytes[1] % 8) * 64 + x(2)) * 64 + x(3)) * 64 + x(4)

\* the first n bytes are the UTF-8 encoding of a valid code point
IsUtf8Prefix(n) ==
    LET c == Utf8Scalar(SubSeq(buffer, 1, n))
    IN  IsValidCodepoint(c) /\ Utf8(c) = SubSeq(buffer, 1, n)

\* the number of bytes a first byte announces, 0 for an invalid one
AnnouncedSize(first) ==
    IF first < 128 THEN 1
    ELSE IF first < 192 \/ first >= 248 THEN 0
    ELSE IF first < 224 THEN 2
    ELSE IF first < 240 THEN 3
    ELSE 4

\* offsets in 1..n-1 of bytes other than 10xxxxxx
NonContinuation(n) == {i \in 1..(n - 1) : buffer[i + 1] \div 64 # 2}

Least(S) == CHOOSE i \in S : \A j \in S : i <= j

IsFirstCodepointCall ==
    out # NoOut /\ out.op = "firstCodepointIn" /\ out.p # nullptr
        /\ out.capacity > 0

\* C19: for a non-empty buffer firstCodepointIn returns a valid code point c
\* with size n iff the first n bytes are the UTF-8 encoding of c, and then
\* n == sizeOfUtf8ForCodepoint(c); otherwise INVALID_CODEPOINT with size 1
\* for an invalid first byte, else capacity if the first byte announces more
\* bytes than that, else the offset of the first byte that is not 10xxxxxx,
\* else the announced n. Always 1 <= size <= min(4, capacity), and only
\* bytes below capacity are read.
FirstCodepointContract ==
    IsFirstCodepointCall =>
        LET n == AnnouncedSize(buffer[1])
            m == IF out.capacity < 4 THEN out.capacity ELSE 4
        IN  /\ out.size >= 1 /\ out.size <= m
            /\ \A i \in out.reads : i >= 0 /\ i < out.capacity
            /\ IF \E k \in 1..m : IsUtf8Prefix(k)
               THEN /\ IsValidCodepoint(out.c)
                    /\ Utf8(out.c) = SubSeq(buffer, 1, out.size)
                    /\ out.size = sizeOfUtf8ForCodepoint(out.c)
               ELSE /\ out.c = INVALID_CODEPOINT
                    /\ out.size = IF n = 0 THEN 1
                                  ELSE IF n > out.capacity THEN out.capacity
                                  ELSE IF NonContinuation(n) # {}
                                  THEN Least(NonContinuation(n))
                                  ELSE n

\* U+10FFFF has been read from F4 8F BF BF
FirstCodepointContractWitness ==
    /\ IsFirstCodepointCall
    /\ buffer = <<244, 143, 191, 191>> /\ out.capacity = 4
    /\ out.c = 1114111 /\ out.size = 4

IsUtf8Of(bytes) ==
    LET c == Utf8Scalar(bytes)
    IN  IsValidCodepoint(c) /\ Utf8(c) = bytes

\* the code points of a byte string that is a concatenation of UTF-8
\* encodings of valid code points (wf), by the encoder Utf8
RECURSIVE CodepointsOf(_)
CodepointsOf(bytes) ==
    IF bytes = <<>> THEN [wf |-> TRUE, cps |-> {}]
    ELSE LET ks == {k \in 1..(IF Len(bytes) < 4 THEN Len(bytes) ELSE 4) :
                       IsUtf8Of(SubSeq(bytes, 1, k))}
         IN  IF ks = {} THEN [wf |-> FALSE, cps |-> {}]
             ELSE LET k == CHOOSE k \in ks : TRUE
                      rest == CodepointsOf(SubSeq(bytes, k + 1, Len(bytes)))
                  IN  [wf |-> rest.wf,
                       cps |-> {Utf8Scalar(SubSeq(bytes, 1, k))} \cup rest.cps]

\* min <= c <= max for a valid code point c and unsigned limits
InCodePointRange(c, lo, hi) ==
    lo # INVALID_CODEPOINT /\ lo <= c /\ (hi = INVALID_CODEPOINT \/ c <= hi)

IsTextCall == out # NoOut /\ out.op \in {"getUtf8", "getAscii"}

\* C21: getUtf8 and getAscii return OK with (buffer(), size()) iff the
\* string is empty or well-formed UTF-8 with all code points in the range;
\* RANGE iff it is non-empty, well-formed and a code point is outside;
\* ILLFORMED iff it is non-empty and malformed, whatever the range; with
\* RANGE and ILLFORMED the outputs are (nullptr, 0).
TextGetterContract ==
    IsTextCall =>
        LET bytes == IF out.s.size = 0 THEN <<>>
                     ELSE SubSeq(buffer, out.s.buffer,
                                 out.s.buffer + out.s.size - 1)
            ref == CodepointsOf(bytes)
            inRange == \A c \in ref.cps :
                           InCodePointRange(c, out.minCodePoint, out.maxCodePoint)
        IN  /\ out.result = IF bytes = <<>> \/ (ref.wf /\ inRange) THEN "OK"
                            ELSE IF ref.wf THEN "RANGE"
                            ELSE "ILLFORMED"
            /\ IF out.result = "OK"
               THEN out.buffer = out.s.buffer /\ out.size = out.s.size
               ELSE out.buffer = nullptr /\ out.size = 0

\* 'a' U+D7FF 'a' has been refused with RANGE for the range ['b', U+D7FF]
TextGetterContractWitness ==
    /\ IsTextCall /\ out.op = "getUtf8"
    /\ buffer = <<97, 237, 159, 191, 97>> /\ out.s.size = 5
    /\ out.minCodePoint = 98 /\ out.maxCodePoint = 55295
    /\ out.result = "RANGE" /\ out.buffer = nullptr /\ out.size = 0

(***************************************************************************)
(* Properties of ResultCodeSet (specification SpecCodes)                   *)
(***************************************************************************)
\* the declared result codes other than OK
NonOkCodes == {ResultCode[n] : n \in DOMAIN ResultCode} \ {ResultCode.OK}

\* the members of a ResultCodeSet
MembersOf(S) == {c \in NonOkCodes : (S \div c) % 2 = 1}

\* the codes taken out so far are distinct members of the set at the
\* start, in strictly increasing severity, one per step, and what is left
\* are the other members; leastSevereIn of the empty set is OK; from ALL,
\* the codes taken out at the end are all declared codes other than OK
ResultCodeStepwise ==
    LET n == Len(out.produced)
        taken == {out.produced[i] : i \in 1..n}
    IN  /\ calls = n
        /\ taken \subseteq MembersOf(out.start)
        /\ \A i \in 1..(n - 1) : out.produced[i] < out.produced[i + 1]
        /\ MembersOf(out.results) = MembersOf(out.start) \ taken
        /\ \A c \in MembersOf(out.results) : \A t \in taken : t < c
        /\ n + Cardinality(MembersOf(out.results))
               = Cardinality(MembersOf(out.start))
        /\ out.results = ResultCodeSetNONE => out.r = ResultCode.OK
        /\ out.results # ResultCodeSetNONE => out.r \in MembersOf(out.results)
        /\ (out.start = ResultCodeSetALL /\ out.results = ResultCodeSetNONE)
              => out.produced = <<1, 2, 4, 8, 16, 32, 64, 128>>

IsBinaryRational(k) ==
    front.isComplete /\ buffer[1] = 200 + k /\ front.size = k + 2

IsFloatCall == out.op \in {"getFloat", "getDouble"}

\* C23: for a complete BinaryRationalValue with k = 7, get(float) and
\* get(double) return ILLFORMED with NaN if all 63 bits other than the sign
\* are 0; get(double) returns APPROX_EXTREME with the infinity of the sign
\* bit, never NaN, if the exponent field is 0x7FF, whatever the mantissa.
DoubleReservedPatterns ==
    (IsFloatCall /\ IsBinaryRational(7)) =>
        /\ ((\A i \in 2..8 : buffer[i] = 0) /\ buffer[9] % 128 = 0) =>
              /\ out.result = "ILLFORMED"
              /\ IF out.op = "getFloat" THEN IsNaN32(out.value)
                 ELSE IsNaN64(out.value)
        /\ (out.op = "getDouble" /\ buffer[9] % 128 = 127 /\ buffer[8] >= 240) =>
              /\ out.result = "APPROX_EXTREME"
              /\ out.value = Inf64(buffer[9] >= 128)
              /\ ~IsNaN64(out.value)

\* the pattern of a negative NaN has been read as -infinity
DoubleReservedPatternsWitness ==
    /\ out.op = "getDouble" /\ IsBinaryRational(7)
    /\ buffer = <<207, 1, 0, 0, 0, 0, 0, 240, 255>>
    /\ out.result = "APPROX_EXTREME" /\ out.value = Inf64(TRUE)

(***************************************************************************)
(* Properties of the kinds of Value (specification SpecGet)                *)
(***************************************************************************)
\* the kinds the recorded calls have answered with true
KindsOf == {k \in {"isNone", "isNumberlike", "isNumber", "isString",
                    "isContainer"} : out[k]}

\* C24: for a one-byte Value over the byte b at most one of isNone,
\* isNumberlike, isNumber, isString, isContainer is true: isNumber for
\* b < 0x40 and 0xC8..0xEF, isString for 0x40..0x7F, isContainer for
\* 0x80..0xC7, isNumberlike for 0xFC..0xFE, isNone for 0xFF, none for the
\* reserved 0xF0..0xFB; all five are false for the empty Value().
KindsExclusive ==
    (out.op = "isKind" /\ Len(buffer) <= 1) =>
        IF buffer = <<>>
        THEN front = EmptyValue /\ KindsOf = {}
        ELSE LET b == buffer[1]
             IN  /\ front.buffer # nullptr /\ front.size = 1
                 /\ Cardinality(KindsOf) <= 1
                 /\ KindsOf = IF b < 64 \/ (b >= 200 /\ b < 240) THEN {"isNumber"}
                              ELSE IF b < 128 THEN {"isString"}
                              ELSE IF b < 200 THEN {"isContainer"}
                              ELSE IF b < 252 THEN {}
                              ELSE IF b < 255 THEN {"isNumberlike"}
                              ELSE {"isNone"}

\* the reserved byte 0xF5 is of no kind
KindsExclusiveWitness ==
    /\ out.op = "isKind"
    /\ buffer = <<245>> /\ front.size = 1
    /\ KindsOf = {}

(***************************************************************************)
(* Properties of the sizes (specification SpecSizes)                       *)
(***************************************************************************)
\* C25: sizeOfTokenFromFirstByte(b) is in 1..9 and depends only on b: 1 when
\* b >= 0xE0 or (b < 0xC0 and (b & 0x1F) < 0x18), otherwise 2 + (b & 7);
\* that is 1 for an inline IntegerValue, string or container and for a
\* short DecimalRationalValue or MinimalToken, and 2 + the 3 lowest bits
\* for every other first byte.
TokenSizeFromFirstByte ==
    (out # NoOut /\ out.op = "sizeOfTokenFromFirstByte") =>
        LET b == out.b
            low5 == b - 32 * (b \div 32)
            low3 == b - 8 * (b \div 8)
        IN  /\ out.result \in 1..9
            /\ out.result = IF b >= 224 \/ (b < 192 /\ BitAnd(b, 31) < 24)
                            THEN 1 ELSE 2 + BitAnd(b, 7)
            /\ out.result = IF b < 192 THEN (IF low5 < 24 THEN 1 ELSE low5 - 22)
                            ELSE IF b < 224 THEN 2 + low3
                            ELSE 1

\* the first byte 0xDF announces 8 bytes more
TokenSizeFromFirstByteWitness ==
    /\ out # NoOut /\ out.op = "sizeOfTokenFromFirstByte"
    /\ out.b = 223 /\ out.result = 9

\* 256 + 256^2 + ... + 256^n
RECURSIVE SumOfPowers(_)
SumOfPowers(n) ==
    IF n = 0 THEN <<>> ELSE NatAdd(SumOfPowers(n - 1), Rep(0, n) \o <<1>>)

\* the size of IntegerValue(v) for a magnitude v >= 0
IntegerValueSize(v) ==
    IF NatLt(v, <<24>>) THEN 1
    ELSE LET ns == {n \in 1..8 : NatLt(v, NatAdd(<<24>>, SumOfPowers(n)))}
         IN  1 + (CHOOSE n \in ns : \A m \in ns : n <= m)

\* C26: SizeOf::integer(v) is 1 for 0 <= v < 24 and otherwise 1 + n for the
\* smallest n in 1..8 with v < 24 + 256 + ... + 256^n; for v < 0 it is
\* SizeOf::integer(-v - 1), for every v including INT64_MIN (9).
SizeOfIntegerContract ==
    /\ (out # NoOut /\ out.op = "integerUnsigned") =>
          out.result = IntegerValueSize(out.value)
    /\ (out # NoOut /\ out.op = "integerSigned") =>
          out.result = IntegerValueSize(IF out.value.neg
                                        THEN NatSub(out.value.mag, <<1>>)
                                        ELSE out.value.mag)

\* the iterator as it stands
ThisIterator == [front |-> front, remainingSize |-> remainingSize]

\* the front is the empty Value
FrontIsEmptyValue == front.size = 0

\* the iterators that are at the end from their construction: the
\* default-constructed one, one over a null buffer with a capacity that is
\* not 0, and one over a buffer that is not null with the capacity 0
ConstructedEndIterators ==
    {IteratorDefault}
        \cup {IteratorInit(buffer, nullptr, n) : n \in 1..Len(buffer)}
        \cup {IteratorInit(buffer, 1, 0)}

\* C27: once the iterator is at the end (front is the empty Value) every
\* further operator++ leaves it there, with front.buffer() == nullptr,
\* front.size() == 0 and remainingSize() == 0; an iterator at the end equals
\* ValueSequence::end() however it was obtained (default-constructed, null
\* buffer with a capacity that is not 0, buffer with capacity 0, or by
\* iterating), and no iterator that is not at the end equals end().
EndIteratorIsStable ==
    /\ [](FrontIsEmptyValue =>
            /\ front.buffer = nullptr
            /\ remainingSize = 0
            /\ IteratorEquals(ThisIterator, ValueSequenceEnd))
    /\ [](~FrontIsEmptyValue => ~IteratorEquals(ThisIterator, ValueSequenceEnd))
    /\ [](\A it \in ConstructedEndIterators :
            /\ it.front = EmptyValue /\ it.remainingSize = 0
            /\ IteratorEquals(it, ValueSequenceEnd))
    /\ [][FrontIsEmptyValue =>
            /\ FrontIsEmptyValue'
            /\ front'.buffer = nullptr /\ remainingSize' = 0]_vars

\* an iterator over two values, moved to the end and then once more
EndIteratorIsStableWitness ==
    /\ bufferPtr # nullptr /\ sumSizes = Len(buffer) /\ Len(buffer) >= 2
    /\ calls >= 3
    /\ prev.buffer = nullptr /\ prev.size = 0
    /\ FrontIsEmptyValue /\ IteratorEquals(ThisIterator, ValueSequenceEnd)

\* the bytes buffer_[0] .. buffer_[size_ - 1] of a Value
BytesOf(val) == val.buffer..(val.buffer + val.size - 1)

\* C28: no get method reads a byte outside buffer_[0] .. buffer_[size_ - 1],
\* even when the bytes of the buffer, the first one included, were changed
\* after the construction of the Value.
GettersReadWithinValue ==
    (out # NoOut /\ out.op \in {"getFloatChanged", "getDoubleChanged"}) =>
        out.reads \subseteq BytesOf(front)

\* the widths r of the exponent and p of the mantissa of a
\* BinaryRationalValue with k + 1 bytes after the first, and the bias
ExponentBits(k) == IF k < 3 THEN 2 * k + 3 ELSE IF k < 7 THEN k + 5 ELSE 11
MantissaBits(k) == 8 * (k + 1) - 1 - ExponentBits(k)
ExponentBias(k) == 2 ^ (ExponentBits(k) - 1) - 1

\* a number (-1)^neg * (1 + m / 2^52) * 2^e with m = hi * 2^29 + lo
Finite(neg, e, hi, lo) == [kind |-> "finite", neg |-> neg, e |-> e, hi |-> hi, lo |-> lo]

\* the number a complete BinaryRationalValue at the start of the buffer
\* represents: (-1)^s * (1 + M / 2^p) * 2^(E - bias)
RepresentedNumber(k) ==
    LET bits == BitsOf(SubSeq(buffer, 2, k + 2))
        r == ExponentBits(k)
        p == MantissaBits(k)
        m52 == Rep(0, 52 - p) \o SubSeq(bits, 1, p)
    IN  Finite(bits[8 * (k + 1)] = 1, Field(bits, p + 1, r) - ExponentBias(k),
               Field(m52, 30, 23), Field(m52, 1, 29))

\* the number an IEEE-754 binary64 bit pattern stands for
Binary64Number(v) ==
    IF v.exp = 2047
    THEN [kind |-> IF v.hi = 0 /\ v.lo = 0 THEN "infinity" ELSE "NaN", neg |-> v.neg]
    ELSE IF v.exp # 0
    THEN Finite(v.neg, v.exp - 1023, v.hi, v.lo)
    ELSE IF v.hi = 0 /\ v.lo = 0
    THEN [kind |-> "zero", neg |-> v.neg]
    ELSE LET bits == [i \in 1..52 |-> IF i <= 29 THEN (v.lo \div (2 ^ (i - 1))) % 2
                                       ELSE (v.hi \div (2 ^ (i - 30))) % 2]
             t == CHOOSE i \in 1..52 : bits[i] = 1 /\ \A j \in (i + 1)..52 : bits[j] = 0
             m52 == Rep(0, 53 - t) \o SubSeq(bits, 1, t - 1)
         IN  Finite(v.neg, t - 1075, Field(m52, 30, 23), Field(m52, 1, 29))

\* C29: for a complete BinaryRationalValue with k in 0..6, get(double)
\* returns OK only with a binary64 bit pattern that stands for exactly
\* (-1)^s * (1 + M / 2^p) * 2^(E - bias), for every E from 0 to 2^r - 1, and
\* so never with NaN, an infinity or a zero.
DoubleIsExact ==
    \A k \in 0..6 :
        (out.op = "getDouble" /\ IsBinaryRational(k) /\ out.result = "OK") =>
            Binary64Number(out.value) = RepresentedNumber(k)

\* what binary32 keeps of a finite number n = (1 + m / 2^52) * 2^e: with 53
\* significant bits (the leading 1 and m) the lowest 29 bits are below the
\* last place of a normalized binary32 (e >= -126), and the lowest
\* -97 - e bits are below the last place 2^-149 of a denormalized one
Significand(n) ==
    [i \in 1..53 |-> IF i <= 29 THEN (n.lo \div (2 ^ (i - 1))) % 2
                     ELSE IF i <= 52 THEN (n.hi \div (2 ^ (i - 30))) % 2
                     ELSE 1]

DiscardedBits(n) == IF n.e >= -126 THEN 29 ELSE -97 - n.e

\* n is a normalized or denormalized binary32
IsBinary32(n) ==
    /\ n.e <= 127
    /\ \A i \in 1..53 : i <= DiscardedBits(n) => Significand(n)[i] = 0

\* the binary32 next to n in the direction of 0, for n.e <= 127
TowardZero32(n) ==
    LET d == DiscardedBits(n)
        kept == IF d >= 53 THEN 0 ELSE Field(Significand(n), d + 1, 53 - d)
    IN  IF n.e >= -126 THEN F32(n.neg, n.e + 127, kept - 2 ^ 23)
        ELSE F32(n.neg, 0, kept)

\* a complete BinaryRationalValue that is well-formed: not k = 7 with all
\* bits but the sign 0
IsWellFormedBinaryRational(k) ==
    /\ IsBinaryRational(k)
    /\ ~(k = 7 /\ (\A i \in 2..8 : buffer[i] = 0) /\ buffer[9] % 128 = 0)

====
